---- MODULE Spec2Model ----
(***************************************************************************)
(* Model of the netstack sleep package (sleep/sleep_unsafe.go) and of the  *)
(* TCP connection set-up code (tcpip/transport/tcp/connect.go).            *)
(*                                                                         *)
(* Part I  : Sleeper / Waker, one atomic memory operation per step.        *)
(* Part II : handshake and the start of protocolMainLoop.                  *)
(***************************************************************************)
EXTENDS Integers, Naturals, Sequences, FiniteSets, TLC

(***************************************************************************)
(* Part I: sleep_unsafe.go                                                 *)
(***************************************************************************)

\* Number of Waker objects in the model.
NumWakers == 2

\* The nil pointer, and the zero value of waitingG.
Nil == 0

\* &assertedSleeper, as a value of Waker.s.
assertedSleeper == -1

\* &sentinelWaker, as a value of Sleeper.sharedList.
sentinelWaker == -1

\* The one Sleeper object s of the model, as a value of Waker.s.
TheSleeper == 1

\* Values of Sleeper.waitingG other than zero.
preparingG == 1
ConsumerG == 2

Wakers == 1..NumWakers

\* Thread 0 is the goroutine that owns the sleeper; 1 and 2 are producers.
Consumer == 0
Producers == {1, 2}
Threads == {Consumer} \cup Producers

VARIABLES
    w_s,          \* Waker.s    : Nil, assertedSleeper or TheSleeper
    w_next,       \* Waker.next : Nil or a waker
    w_id,         \* Waker.id   : 0 until AddWaker sets it
    sharedList,   \* Sleeper.sharedList : Nil, a waker or sentinelWaker
    localList,    \* Sleeper.localList  : Nil or a waker
    waitingG,     \* Sleeper.waitingG   : 0, preparingG or ConsumerG
    pc,           \* per thread: the atomic step it executes next
    tw,           \* per thread: the waker its current call is about
    tv,           \* per thread: the local v / g / p it has loaded
    block,        \* the consumer's Fetch argument
    lastRet,      \* the call that returned last and its result: [op, val]
    readyErr,     \* goready was called on a goroutine that was not parked
    arrival,      \* history: wakers in the order their push succeeded, not yet popped
    lateCall      \* history, per thread: the current call began after Done

wakeVars == <<w_s, w_next, w_id, sharedList, localList, waitingG, pc, tw, tv,
              block, lastRet, readyErr, arrival, lateCall>>

VARIABLES
    h,            \* the handshake object of protocolMainLoop
    segmentQueue, \* endpoint.segmentQueue: segments received, not yet processed
    notifyFlags,  \* endpoint.notifyFlags: notifications not yet fetched
    ready,        \* the asserted wakers of the driver, in the order Fetch returns them
    timeOut,      \* execute's timeOut, in seconds
    armed,        \* the timer rt is running
    deadline,     \* the time at which rt expires, in seconds
    now,          \* the time, in seconds since execute began
    out,          \* the segments the driver's last step emitted
    synLog,       \* history: time and seq of every SYN emitted, while nothing arrived
    quiet,        \* history: no segment and no notification has arrived
    hsErr,        \* the error execute returned
    dpc,          \* the driver's position in protocolMainLoop
    e_state,      \* endpoint.state
    lastError,    \* endpoint.lastError
    hardError,    \* endpoint.hardError
    snd,          \* endpoint.snd: <<>> or the arguments of newSender
    rcv,          \* endpoint.rcv: <<>> or the arguments of newReceiver
    notified,     \* the event masks passed to waiterQueue.Notify, in order
    delivered,    \* history: the number of segments that have arrived
    exitLog       \* history: what protocolMainLoop did on its return, in order

tcpVars == <<h, segmentQueue, notifyFlags, ready, timeOut, armed, deadline, now,
             out, synLog, quiet, hsErr, dpc, e_state, lastError, hardError,
             snd, rcv, notified, delivered, exitLog>>

VARIABLES
    closeTimer,    \* protocolMainLoop's closeTimer: "nil", "armed", "fired" or "stopped"
    closeDeadline, \* the time at which closeTimer expires, in seconds
    sndBufInQueue, \* endpoint.sndBufInQueue: bytes written and not yet moved to the sender
    batch,         \* handleSegments' loop counter i
    handled,       \* history: the segments passed to handleRcvdSegment
    armCount,      \* history: how often time.AfterFunc armed closeTimer
    closeSeen,     \* history: how many Close notifications the main loop fetched
    events,        \* how many events have reached the main loop from outside
    workMu         \* endpoint.workMu: "driver", "none", or "ext" for another task

drvVars == <<closeTimer, closeDeadline, sndBufInQueue, batch, handled, armCount,
             closeSeen, events, workMu>>

VARIABLES
    job,          \* the function applied to the drawn input
    p_opts,       \* parseSynOptions: opts
    p_i,          \* parseSynOptions: i
    p_mss,        \* parseSynOptions: mss
    p_ws,         \* parseSynOptions: ws
    p_ret,        \* parseSynOptions: "call", "run" in the loop, then "ok", "bad" or "panic"
    p_reads,      \* history: the indices of opts read so far
    f_wnd,        \* findWndScale: wnd
    f_s,          \* findWndScale: the scale returned
    f_ret,        \* findWndScale: "call" before the call, then "done"
    c_h,          \* synRcvdState, processSegments: the handshake object
    c_seg,        \* synRcvdState, processSegments: the segment
    c_res         \* synRcvdState, processSegments: <<>> or <<the result of the last call>>

VARIABLES
    ho_w,         \* the hand-off: the wakers, each [s, next, id]
    ho_sl,        \* the hand-off: the sleepers, each [sharedList, localList, waitingG]
    ho_pc,        \* the hand-off, per goroutine: the step it executes next
    ho_loc,       \* the hand-off, per goroutine: the locals of its call, [w, s, v, ret]
    ho_ep         \* the hand-off: the endpoint, [h, segmentQueue, notifyFlags] and history

hoVars == <<ho_w, ho_sl, ho_pc, ho_loc, ho_ep>>

fnVars == <<job, p_opts, p_i, p_mss, p_ws, p_ret, p_reads, f_wnd, f_s, f_ret,
            c_h, c_seg, c_res, hoVars>>

\* Sleeper.Done has run: it alone stores sentinelWaker.
SleeperDone == sharedList = sentinelWaker

\* The wakers linked from v through Waker.next (at most n of them).
RECURSIVE Chain(_, _)
Chain(v, n) ==
    IF v = Nil \/ v = sentinelWaker \/ n = 0 THEN <<>>
    ELSE <<v>> \o Chain(w_next[v], n - 1)

SharedSeq == Chain(sharedList, NumWakers + 1)
LocalSeq == Chain(localList, NumWakers + 1)

\* Bookkeeping of a thread that goes on to step l of its call.
Goto(t, l, w, v) ==
    /\ pc' = [pc EXCEPT ![t] = l]
    /\ tw' = [tw EXCEPT ![t] = w]
    /\ tv' = [tv EXCEPT ![t] = v]
    /\ lateCall' = [lateCall EXCEPT ![t] = IF pc[t] = "idle" THEN SleeperDone ELSE @]
    /\ UNCHANGED lastRet

\* Bookkeeping of a thread whose call op returns val.
Return(t, op, val) ==
    /\ pc' = [pc EXCEPT ![t] = "idle"]
    /\ tw' = [tw EXCEPT ![t] = 0]
    /\ tv' = [tv EXCEPT ![t] = 0]
    /\ lateCall' = [lateCall EXCEPT ![t] = FALSE]
    /\ lastRet' = [op |-> op, val |-> val]

\* enqueueAssertedWaker is called by Waker.Assert (a producer) and by
\* Sleeper.AddWaker (the consumer): the call that returns when it returns.
CallerOf(t) == IF t = Consumer THEN "AddWaker" ELSE "WakerAssert"

(* Waker.Assert *)

\* Waker.Assert, the first load of w.s.
AssertLoad(t, w) ==
    /\ pc[t] = "idle"
    /\ IF w_s[w] = assertedSleeper
       THEN Return(t, "WakerAssert", 0)
       ELSE Goto(t, "A_swap", w, 0)
    /\ UNCHANGED <<w_s, w_next, w_id, sharedList, localList, waitingG, block,
                   readyErr, arrival>>

\* A variant of the switch in Waker.Assert without the case for
\* &assertedSleeper: a waker that was already asserted is enqueued again.
AssertSwapEnqueuesAgain(t) ==
    /\ pc[t] = "A_swap"
    /\ w_s' = [w_s EXCEPT ![tw[t]] = assertedSleeper]
    /\ IF w_s[tw[t]] = Nil
       THEN Return(t, "WakerAssert", 0)
       ELSE Goto(t, "E_load", tw[t], 0)
    /\ UNCHANGED <<w_next, w_id, sharedList, localList, waitingG, block,
                   readyErr, arrival>>

\* Waker.Assert, the swap of w.s and the switch on the old value.
AssertSwap(t) ==
    /\ pc[t] = "A_swap"
    /\ w_s' = [w_s EXCEPT ![tw[t]] = assertedSleeper]
    /\ IF w_s[tw[t]] \in {Nil, assertedSleeper}
       THEN Return(t, "WakerAssert", 0)
       ELSE Goto(t, "E_load", tw[t], 0)
    /\ UNCHANGED <<w_next, w_id, sharedList, localList, waitingG, block,
                   readyErr, arrival>>

(* Sleeper.enqueueAssertedWaker *)

\* A variant of the first loop of enqueueAssertedWaker without the test
\* for sentinelWaker.
EnqueueLoadNoSentinel(t) ==
    /\ pc[t] = "E_load"
    /\ w_next' = [w_next EXCEPT ![tw[t]] = sharedList]
    /\ Goto(t, "E_cas", tw[t], sharedList)
    /\ UNCHANGED <<w_s, w_id, sharedList, localList, waitingG, block,
                   readyErr, arrival>>

\* The load of sharedList, the sentinel test and the store to w.next.
EnqueueLoad(t) ==
    /\ pc[t] = "E_load"
    /\ IF sharedList = sentinelWaker
       THEN Return(t, CallerOf(t), 0) /\ UNCHANGED w_next
       ELSE /\ w_next' = [w_next EXCEPT ![tw[t]] = sharedList]
            /\ Goto(t, "E_cas", tw[t], sharedList)
    /\ UNCHANGED <<w_s, w_id, sharedList, localList, waitingG, block,
                   readyErr, arrival>>

\* A variant of the push whose compare-and-swap has old and new exchanged:
\* it compares sharedList with w and would store v.
EnqueueCASExchanged(t) ==
    /\ pc[t] = "E_cas"
    /\ IF sharedList = tw[t]
       THEN /\ sharedList' = tv[t]
            /\ arrival' = Append(arrival, tw[t])
            /\ Goto(t, "W_load", tw[t], 0)
       ELSE /\ UNCHANGED <<sharedList, arrival>>
            /\ Goto(t, "E_load", tw[t], 0)
    /\ UNCHANGED <<w_s, w_next, w_id, localList, waitingG, block, readyErr>>

\* The compare-and-swap that pushes w onto sharedList.
EnqueueCAS(t) ==
    /\ pc[t] = "E_cas"
    /\ IF sharedList = tv[t]
       THEN /\ sharedList' = tw[t]
            /\ arrival' = Append(arrival, tw[t])
            /\ Goto(t, "W_load", tw[t], 0)
       ELSE /\ UNCHANGED <<sharedList, arrival>>
            /\ Goto(t, "E_load", tw[t], 0)
    /\ UNCHANGED <<w_s, w_next, w_id, localList, waitingG, block, readyErr>>

\* The load of waitingG.
WakeLoad(t) ==
    /\ pc[t] = "W_load"
    /\ IF waitingG = 0
       THEN Return(t, CallerOf(t), 0)
       ELSE Goto(t, "W_cas", tw[t], waitingG)
    /\ UNCHANGED <<w_s, w_next, w_id, sharedList, localList, waitingG, block,
                   readyErr, arrival>>

\* A variant of the wake-up that stores zero to waitingG without comparing
\* it with the g it loaded.
WakeStore(t) ==
    /\ pc[t] = "W_cas"
    /\ waitingG' = 0
    /\ IF tv[t] # preparingG
       THEN Goto(t, "W_ready", tw[t], tv[t])
       ELSE Goto(t, "W_load", tw[t], 0)
    /\ UNCHANGED <<w_s, w_next, w_id, sharedList, localList, block,
                   readyErr, arrival>>

\* The compare-and-swap of waitingG from g to zero.
WakeCAS(t) ==
    /\ pc[t] = "W_cas"
    /\ IF waitingG = tv[t]
       THEN /\ waitingG' = 0
            /\ IF tv[t] # preparingG
               THEN Goto(t, "W_ready", tw[t], tv[t])
               ELSE Goto(t, "W_load", tw[t], 0)
       ELSE /\ UNCHANGED waitingG
            /\ Goto(t, "W_load", tw[t], 0)
    /\ UNCHANGED <<w_s, w_next, w_id, sharedList, localList, block,
                   readyErr, arrival>>

\* goready(g, 0): the parked consumer resumes after gopark, at the test of
\* the inner loop of Fetch.
GoReady(t) ==
    /\ pc[t] = "W_ready"
    /\ IF pc[Consumer] = "parked"
       THEN /\ pc' = [pc EXCEPT ![t] = "W_load", ![Consumer] = "F_load"]
            /\ UNCHANGED readyErr
       ELSE /\ pc' = [pc EXCEPT ![t] = "W_load"]
            /\ readyErr' = TRUE
    /\ tv' = [tv EXCEPT ![t] = 0]
    /\ UNCHANGED <<w_s, w_next, w_id, sharedList, localList, waitingG, block, tw,
                   lastRet, arrival, lateCall>>

(* Waker.Clear *)

\* Waker.Clear, the first load of w.s.
ClearLoad(t, w) ==
    /\ pc[t] = "idle"
    /\ IF w_s[w] # assertedSleeper
       THEN Return(t, "Clear", FALSE)
       ELSE Goto(t, "C_cas", w, 0)
    /\ UNCHANGED <<w_s, w_next, w_id, sharedList, localList, waitingG, block,
                   readyErr, arrival>>

\* A variant of Waker.Clear that stores nil instead of comparing and
\* swapping, and returns true.
ClearStore(t) ==
    /\ pc[t] = "C_cas"
    /\ w_s' = [w_s EXCEPT ![tw[t]] = Nil]
    /\ Return(t, "Clear", TRUE)
    /\ UNCHANGED <<w_next, w_id, sharedList, localList, waitingG, block,
                   readyErr, arrival>>

\* Waker.Clear, the compare-and-swap of w.s from &assertedSleeper to nil.
ClearCAS(t) ==
    /\ pc[t] = "C_cas"
    /\ IF w_s[tw[t]] = assertedSleeper
       THEN w_s' = [w_s EXCEPT ![tw[t]] = Nil] /\ Return(t, "Clear", TRUE)
       ELSE UNCHANGED w_s /\ Return(t, "Clear", FALSE)
    /\ UNCHANGED <<w_next, w_id, sharedList, localList, waitingG, block,
                   readyErr, arrival>>

(* Sleeper.AddWaker *)

\* The id AddWaker is called with for waker w.
IdOf(w) == w

\* AddWaker(w, id) is called, once per waker, and stores w.id.
AddWakerCall(w) ==
    /\ pc[Consumer] = "idle"
    /\ w_id[w] = 0
    /\ w_id' = [w_id EXCEPT ![w] = IdOf(w)]
    /\ Goto(Consumer, "AW_load", w, 0)
    /\ UNCHANGED <<w_s, w_next, sharedList, localList, waitingG, block,
                   readyErr, arrival>>

\* AddWaker, the load of w.s: an asserted waker is enqueued.
AddWakerLoad ==
    /\ pc[Consumer] = "AW_load"
    /\ IF w_s[tw[Consumer]] = assertedSleeper
       THEN Goto(Consumer, "E_load", tw[Consumer], 0)
       ELSE Goto(Consumer, "AW_cas", tw[Consumer], w_s[tw[Consumer]])
    /\ UNCHANGED <<w_s, w_next, w_id, sharedList, localList, waitingG, block,
                   readyErr, arrival>>

\* A variant of AddWaker that stores s to w.s instead of comparing and
\* swapping.
AddWakerStore ==
    /\ pc[Consumer] = "AW_cas"
    /\ w_s' = [w_s EXCEPT ![tw[Consumer]] = TheSleeper]
    /\ Return(Consumer, "AddWaker", 0)
    /\ UNCHANGED <<w_next, w_id, sharedList, localList, waitingG, block,
                   readyErr, arrival>>

\* AddWaker, the compare-and-swap of w.s from p to s.
AddWakerCAS ==
    /\ pc[Consumer] = "AW_cas"
    /\ IF w_s[tw[Consumer]] = tv[Consumer]
       THEN /\ w_s' = [w_s EXCEPT ![tw[Consumer]] = TheSleeper]
            /\ Return(Consumer, "AddWaker", 0)
       ELSE /\ UNCHANGED w_s
            /\ Goto(Consumer, "AW_load", tw[Consumer], 0)
    /\ UNCHANGED <<w_next, w_id, sharedList, localList, waitingG, block,
                   readyErr, arrival>>

(* Sleeper.Fetch *)

\* Fetch(b) is called (never after Done) and tests localList.
FetchCall(b) ==
    /\ pc[Consumer] = "idle"
    /\ ~SleeperDone
    /\ block' = b
    /\ Goto(Consumer, IF localList = Nil THEN "F_load" ELSE "F_pop", 0, 0)
    /\ UNCHANGED <<w_s, w_next, w_id, sharedList, localList, waitingG,
                   readyErr, arrival>>

\* The test of the inner loop: the load of sharedList, and the !block return.
FetchLoad ==
    /\ pc[Consumer] = "F_load"
    /\ IF sharedList # Nil
       THEN Goto(Consumer, "F_drain", 0, 0)
       ELSE IF ~block
            THEN Return(Consumer, "Fetch", -1)
            ELSE Goto(Consumer, "F_prep", 0, 0)
    /\ UNCHANGED <<w_s, w_next, w_id, sharedList, localList, waitingG, block,
                   readyErr, arrival>>

\* The store of preparingG to waitingG.
FetchPrepare ==
    /\ pc[Consumer] = "F_prep"
    /\ waitingG' = preparingG
    /\ Goto(Consumer, "F_recheck", 0, 0)
    /\ UNCHANGED <<w_s, w_next, w_id, sharedList, localList, block,
                   readyErr, arrival>>

\* A variant of Fetch without the second load of sharedList: it goes on to
\* gopark whatever was queued while it was preparing to sleep.
FetchNoRecheck ==
    /\ pc[Consumer] = "F_recheck"
    /\ Goto(Consumer, "F_park", 0, 0)
    /\ UNCHANGED <<w_s, w_next, w_id, sharedList, localList, waitingG, block,
                   readyErr, arrival>>

\* The second load of sharedList, after waitingG was published.
FetchRecheck ==
    /\ pc[Consumer] = "F_recheck"
    /\ Goto(Consumer, IF sharedList # Nil THEN "F_abort" ELSE "F_park", 0, 0)
    /\ UNCHANGED <<w_s, w_next, w_id, sharedList, localList, waitingG, block,
                   readyErr, arrival>>

\* The store of zero to waitingG and the break out of the inner loop.
FetchAbort ==
    /\ pc[Consumer] = "F_abort"
    /\ waitingG' = 0
    /\ Goto(Consumer, "F_drain", 0, 0)
    /\ UNCHANGED <<w_s, w_next, w_id, sharedList, localList, block,
                   readyErr, arrival>>

\* commitSleep(g, &s.waitingG): the sleep is committed when waitingG still
\* holds preparingG, which g then replaces.
commitSleep(g) == waitingG = preparingG

\* gopark(commitSleep, &s.waitingG, ...): the caller parks if commitSleep
\* says so and otherwise goes on with the inner loop.
FetchPark ==
    /\ pc[Consumer] = "F_park"
    /\ IF commitSleep(ConsumerG)
       THEN waitingG' = ConsumerG /\ Goto(Consumer, "parked", 0, 0)
       ELSE UNCHANGED waitingG /\ Goto(Consumer, "F_load", 0, 0)
    /\ UNCHANGED <<w_s, w_next, w_id, sharedList, localList, block,
                   readyErr, arrival>>

\* A variant of the drain that puts the list v in front of localList as it
\* is, newest push first.
KeepOrder(v, nxt, ll, n) == [next |-> nxt, localList |-> v]

\* The loop that moves the list v to the front of localList ll, reversed.
RECURSIVE Reverse(_, _, _, _)
Reverse(v, nxt, ll, n) ==
    IF v = Nil \/ n = 0 THEN [next |-> nxt, localList |-> ll]
    ELSE Reverse(nxt[v], [nxt EXCEPT ![v] = ll], v, n - 1)

\* The swap of sharedList with nil and the reversal into localList.
FetchDrain ==
    /\ pc[Consumer] = "F_drain"
    /\ sharedList' = Nil
    /\ LET r == Reverse(sharedList, w_next, localList, NumWakers + 1)
       IN w_next' = r.next /\ localList' = r.localList
    /\ Goto(Consumer, "F_pop", 0, 0)
    /\ UNCHANGED <<w_s, w_id, waitingG, block, readyErr, arrival>>

\* A variant of the pop that stores nil to w.s: the waker it returns is
\* left without a sleeper.
FetchPopUnbinds ==
    /\ pc[Consumer] = "F_pop"
    /\ localList # Nil
    /\ LET w == localList IN
       /\ localList' = w_next[w]
       /\ w_s' = [w_s EXCEPT ![w] = IF w_s[w] = assertedSleeper THEN Nil ELSE TheSleeper]
       /\ arrival' = IF arrival = <<>> THEN arrival ELSE Tail(arrival)
       /\ IF w_s[w] = assertedSleeper
          THEN Return(Consumer, "Fetch", w_id[w]) /\ block' = FALSE
          ELSE /\ Goto(Consumer, IF w_next[w] = Nil THEN "F_load" ELSE "F_pop", 0, 0)
               /\ UNCHANGED block
    /\ UNCHANGED <<w_next, w_id, sharedList, waitingG, readyErr>>

\* The pop of localList's head w and the swap of w.s with s: w's id is
\* returned if w was still asserted, and the outer loop goes on otherwise.
FetchPop ==
    /\ pc[Consumer] = "F_pop"
    /\ localList # Nil
    /\ LET w == localList IN
       /\ localList' = w_next[w]
       /\ w_s' = [w_s EXCEPT ![w] = TheSleeper]
       /\ arrival' = IF arrival = <<>> THEN arrival ELSE Tail(arrival)
       /\ IF w_s[w] = assertedSleeper
          THEN Return(Consumer, "Fetch", w_id[w]) /\ block' = FALSE
          ELSE /\ Goto(Consumer, IF w_next[w] = Nil THEN "F_load" ELSE "F_pop", 0, 0)
               /\ UNCHANGED block
    /\ UNCHANGED <<w_next, w_id, sharedList, waitingG, readyErr>>

(* Sleeper.Done *)

\* Done stores sentinelWaker to sharedList and empties localList.
Done ==
    /\ pc[Consumer] = "idle"
    /\ ~SleeperDone
    /\ sharedList' = sentinelWaker
    /\ localList' = Nil
    /\ arrival' = <<>>
    /\ Return(Consumer, "Done", 0)
    /\ UNCHANGED <<w_s, w_next, w_id, waitingG, block, readyErr>>

(***************************************************************************)
(* Part II: connect.go                                                     *)
(***************************************************************************)

(* 32-bit values (seqnum.Value, seqnum.Size) are pairs <<high, low>> of    *)
(* 16-bit halves, with arithmetic modulo 2^32.                             *)

Half == 65536

RECURSIVE Pow2(_)
Pow2(k) == IF k = 0 THEN 1 ELSE 2 * Pow2(k - 1)

U32(n) == <<n \div Half, n % Half>>

\* a + b modulo 2^32 (seqnum.Value.Add, Go's uint32 addition).
Add32(a, b) ==
    LET lo == a[2] + b[2]
    IN <<(a[1] + b[1] + lo \div Half) % Half, lo % Half>>

\* a - b modulo 2^32.
Sub32(a, b) ==
    LET borrow == IF a[2] < b[2] THEN 1 ELSE 0
    IN <<(a[1] - b[1] - borrow + 2 * Half) % Half, (a[2] - b[2] + Half) % Half>>

\* a < b as unsigned 32-bit numbers.
Less32(a, b) == a[1] < b[1] \/ (a[1] = b[1] /\ a[2] < b[2])

\* a >> k and a << k on 32 bits, for 0 <= k <= 14.
Shr32(a, k) ==
    <<a[1] \div Pow2(k), (a[2] \div Pow2(k) + (a[1] % Pow2(k)) * Pow2(16 - k)) % Half>>

Shl32(a, k) ==
    <<(a[1] * Pow2(k) + a[2] \div Pow2(16 - k)) % Half, (a[2] * Pow2(k)) % Half>>

\* seqnum.Value.InWindow(first, size): v - first < size, modulo 2^32.
InWindow(v, first, size) == Less32(Sub32(v, first), size)

(* Constants of connect.go and of the packages it uses *)

maxSegmentsPerWake == 100

handshakeSynSent == 0
handshakeSynRcvd == 1
handshakeCompleted == 2

wakerForNotification == 0
wakerForNewSegment == 1
wakerForResend == 2

maxWndScale == 14

flagFin == "fin"
flagSyn == "syn"
flagRst == "rst"
flagAck == "ack"

TCPOptionEOL == 0
TCPOptionNOP == 1
TCPOptionMSS == 2
TCPOptionWS == 3

TCPMinimumSize == 20

\* r.MTU() of the endpoint's route.
MTU == 1480

notifyClose == "notifyClose"
notifyNonZeroReceiveWindow == "notifyNonZeroReceiveWindow"

stateConnecting == "stateConnecting"
stateConnected == "stateConnected"
stateError == "stateError"
stateClosed == "stateClosed"

EventIn == "EventIn"
EventOut == "EventOut"

NoError == "nil"
ErrConnectionRefused == "ErrConnectionRefused"
ErrTimeout == "ErrTimeout"
ErrAborted == "ErrAborted"
ErrInvalidEndpointState == "ErrInvalidEndpointState"
ErrRandRead == "rand.Read error"
ErrConnectionReset == "ErrConnectionReset"
ErrConnectionAborted == "ErrConnectionAborted"

\* The errors with which the active handshake of the driver can fail.
HandshakeErrors == {ErrConnectionRefused, ErrTimeout, ErrAborted, ErrRandRead}

\* The indices of the wakers in funcs, the table of protocolMainLoop.
idxSndWaker == 0
idxSndCloseWaker == 1
idxNewSegmentWaker == 2
idxCloseWaker == 3
idxResendWaker == 4
idxNotificationWaker == 5

\* A segment as the handshake reads it.
Segment(f, seq, ack, wnd, opts, len) ==
    [flags |-> f, sequenceNumber |-> seq, ackNumber |-> ack, window |-> wnd,
     options |-> opts, dataLen |-> len]

\* segment.flagIsSet
flagIsSet(s, f) == f \in s.flags

\* segment.logicalLen: the data, plus one for SYN and one for FIN.
logicalLen(s) ==
    U32(s.dataLen + (IF flagIsSet(s, flagSyn) THEN 1 ELSE 0)
                  + (IF flagIsSet(s, flagFin) THEN 1 ELSE 0))

(* parseSynOptions *)

\* The loop of parseSynOptions from index i on (opts[i] of the code is
\* opts[i + 1] here); n bounds the iterations of the model.  hang reports
\* that the loop no longer advances.
RECURSIVE ParseFrom(_, _, _, _, _)
ParseFrom(opts, i, mss, ws, n) ==
    LET limit == Len(opts)
        bad == [mss |-> 0, ws |-> -1, ok |-> FALSE, hang |-> FALSE]
    IN
    IF i >= limit THEN [mss |-> mss, ws |-> ws, ok |-> TRUE, hang |-> FALSE]
    ELSE IF n = 0 THEN [mss |-> mss, ws |-> ws, ok |-> FALSE, hang |-> TRUE]
    ELSE IF opts[i + 1] = TCPOptionEOL THEN ParseFrom(opts, limit, mss, ws, n - 1)
    ELSE IF opts[i + 1] = TCPOptionNOP THEN ParseFrom(opts, i + 1, mss, ws, n - 1)
    ELSE IF opts[i + 1] = TCPOptionMSS THEN
        IF i + 4 > limit \/ opts[i + 2] # 4 THEN bad
        ELSE LET m == opts[i + 3] * 256 + opts[i + 4]
             IN IF m = 0 THEN bad ELSE ParseFrom(opts, i + 4, m, ws, n - 1)
    ELSE IF opts[i + 1] = TCPOptionWS THEN
        IF i + 3 > limit \/ opts[i + 2] # 3 THEN bad
        ELSE ParseFrom(opts, i + 3,
                       mss, IF opts[i + 3] > maxWndScale THEN maxWndScale ELSE opts[i + 3],
                       n - 1)
    ELSE
        IF i + 2 > limit THEN bad
        ELSE LET l == opts[i + 2]
             IN IF i < 2 \/ i + l > limit THEN bad
                ELSE ParseFrom(opts, i + l, mss, ws, n - 1)

parseSynOptions(s) == ParseFrom(s.options, 0, 536, -1, Len(s.options) + 1)

(* Emission *)

\* What sendTCP and sendTCPWithOptions put on the wire: the window field is
\* 16 bits wide and rcvWnd is clamped to 0xffff.
Emitted(f, seq, ack, rcvWnd, opts) ==
    [flags |-> f, seq |-> seq, ack |-> ack,
     window |-> IF Less32(U32(65535), rcvWnd) THEN 65535 ELSE rcvWnd[2],
     options |-> opts]

\* endpoint.sendRaw with no data
sendRaw(f, seq, ack, rcvWnd) == Emitted(f, seq, ack, rcvWnd, <<>>)

\* The options sendSynTCP builds on a route whose MTU is mtu: the MSS option
\* and, unless rcvWndScale is negative, the WS option and a NOP.  A variant
\* that writes the low byte of mss twice comes first.
synOptionsLowByteTwice(mtu, rcvWndScale) ==
    LET mss == mtu - TCPMinimumSize
        mssOpt == <<TCPOptionMSS, 4, mss % 256, mss % 256>>
        wsOpt == <<TCPOptionWS, 3, rcvWndScale % 256, TCPOptionNOP>>
    IN IF rcvWndScale < 0 THEN mssOpt ELSE mssOpt \o wsOpt

synOptions(mtu, rcvWndScale) ==
    LET mss == mtu - TCPMinimumSize
        mssOpt == <<TCPOptionMSS, 4, (mss \div 256) % 256, mss % 256>>
        wsOpt == <<TCPOptionWS, 3, rcvWndScale % 256, TCPOptionNOP>>
    IN IF rcvWndScale < 0 THEN mssOpt ELSE mssOpt \o wsOpt

\* sendSynTCP
sendSynTCP(f, seq, ack, rcvWnd, rcvWndScale) ==
    Emitted(f, seq, ack, rcvWnd, synOptions(MTU, rcvWndScale))

(* The handshake object *)

\* Values rand.Read can fill the four bytes of iss with.
IssValues == {<<65535, 65535>>, <<0, 7>>}

\* A variant of the loop of findWndScale that goes on while wnd >= max.
RECURSIVE ScaleFromAtLeast(_, _, _)
ScaleFromAtLeast(wnd, max, s) ==
    IF ~Less32(wnd, max) /\ s < maxWndScale
    THEN ScaleFromAtLeast(wnd, Shl32(max, 1), s + 1)
    ELSE s

\* findWndScale, the loop from scale s and limit max on.
RECURSIVE ScaleFrom(_, _, _)
ScaleFrom(wnd, max, s) ==
    IF Less32(max, wnd) /\ s < maxWndScale
    THEN ScaleFrom(wnd, Shl32(max, 1), s + 1)
    ELSE s

findWndScale(wnd) ==
    IF Less32(wnd, U32(65536)) THEN 0 ELSE ScaleFrom(wnd, U32(65535), 0)

\* The result of a step of the handshake: the handshake object after it,
\* the segments it emitted, the error it returned, and whether it hangs.
Result(hh, o, err) == [h |-> hh, out |-> o, err |-> err, hang |-> FALSE]

\* handshake.resetState; rnd is what rand.Read delivers, <<>> if it fails.
resetState(hh, rnd) ==
    IF rnd = <<>> THEN Result(hh, <<>>, ErrRandRead)
    ELSE Result([hh EXCEPT !.state = handshakeSynSent,
                           !.flags = {flagSyn},
                           !.ackNum = U32(0),
                           !.mss = 0,
                           !.iss = rnd],
                <<>>, NoError)

\* The zero value of the handshake struct.
ZeroHandshake ==
    [state |-> handshakeSynSent, active |-> FALSE, flags |-> {}, ackNum |-> U32(0),
     iss |-> U32(0), rcvWnd |-> U32(0), sndWnd |-> U32(0), mss |-> 0,
     sndWndScale |-> 0, rcvWndScale |-> 0]

newHandshake(rcvWnd, rnd) ==
    resetState([ZeroHandshake EXCEPT !.active = TRUE,
                                     !.rcvWnd = rcvWnd,
                                     !.rcvWndScale = findWndScale(rcvWnd)],
               rnd)

\* handshake.resetToSynRcvd
resetToSynRcvd(hh, iss, irs, mss, sndWndScale) ==
    [hh EXCEPT !.active = FALSE,
               !.state = handshakeSynRcvd,
               !.flags = {flagSyn, flagAck},
               !.iss = iss,
               !.ackNum = Add32(irs, U32(1)),
               !.mss = mss,
               !.sndWndScale = sndWndScale]

effectiveRcvWndScale(hh) == IF hh.sndWndScale < 0 THEN 0 ELSE hh.rcvWndScale % 256

\* A variant of checkAck whose reset carries the sequence number zero.
checkAckSeqZero(hh, s) ==
    IF flagIsSet(s, flagAck) /\ s.ackNumber # Add32(hh.iss, U32(1))
    THEN <<sendRaw({flagRst, flagAck}, U32(0),
                   Add32(s.sequenceNumber, logicalLen(s)), U32(0))>>
    ELSE <<>>

\* handshake.checkAck: the segments it emits; it returns true iff none.
checkAck(hh, s) ==
    IF flagIsSet(s, flagAck) /\ s.ackNumber # Add32(hh.iss, U32(1))
    THEN <<sendRaw({flagRst, flagAck}, s.ackNumber,
                   Add32(s.sequenceNumber, logicalLen(s)), U32(0))>>
    ELSE <<>>

\* A variant of synSentState that accepts an RST by its acknowledgement
\* number alone, without testing that the segment carries ACK.
synSentStateRstWithoutAck(hh, s) ==
    IF flagIsSet(s, flagRst) THEN
        IF s.ackNumber = Add32(hh.iss, U32(1))
        THEN Result(hh, <<>>, ErrConnectionRefused)
        ELSE Result(hh, <<>>, NoError)
    ELSE IF checkAck(hh, s) # <<>> THEN Result(hh, checkAck(hh, s), NoError)
    ELSE IF ~flagIsSet(s, flagSyn) THEN Result(hh, <<>>, NoError)
    ELSE LET p == parseSynOptions(s) IN
    IF p.hang THEN [Result(hh, <<>>, NoError) EXCEPT !.hang = TRUE]
    ELSE IF ~p.ok THEN Result(hh, <<>>, NoError)
    ELSE LET h1 == [hh EXCEPT !.ackNum = Add32(s.sequenceNumber, U32(1)),
                              !.flags = @ \cup {flagAck},
                              !.mss = p.mss,
                              !.sndWndScale = p.ws]
         IN IF flagIsSet(s, flagAck)
            THEN Result([h1 EXCEPT !.state = handshakeCompleted],
                        <<sendRaw({flagAck}, Add32(h1.iss, U32(1)), h1.ackNum,
                                  Shr32(h1.rcvWnd, effectiveRcvWndScale(h1)))>>,
                        NoError)
            ELSE Result([h1 EXCEPT !.state = handshakeSynRcvd],
                        <<sendSynTCP(h1.flags, h1.iss, h1.ackNum, h1.rcvWnd,
                                     h1.rcvWndScale)>>,
                        NoError)

\* handshake.synSentState
synSentState(hh, s) ==
    IF flagIsSet(s, flagRst) THEN
        IF flagIsSet(s, flagAck) /\ s.ackNumber = Add32(hh.iss, U32(1))
        THEN Result(hh, <<>>, ErrConnectionRefused)
        ELSE Result(hh, <<>>, NoError)
    ELSE IF checkAck(hh, s) # <<>> THEN Result(hh, checkAck(hh, s), NoError)
    ELSE IF ~flagIsSet(s, flagSyn) THEN Result(hh, <<>>, NoError)
    ELSE LET p == parseSynOptions(s) IN
    IF p.hang THEN [Result(hh, <<>>, NoError) EXCEPT !.hang = TRUE]
    ELSE IF ~p.ok THEN Result(hh, <<>>, NoError)
    ELSE LET h1 == [hh EXCEPT !.ackNum = Add32(s.sequenceNumber, U32(1)),
                              !.flags = @ \cup {flagAck},
                              !.mss = p.mss,
                              !.sndWndScale = p.ws]
         IN IF flagIsSet(s, flagAck)
            THEN Result([h1 EXCEPT !.state = handshakeCompleted],
                        <<sendRaw({flagAck}, Add32(h1.iss, U32(1)), h1.ackNum,
                                  Shr32(h1.rcvWnd, effectiveRcvWndScale(h1)))>>,
                        NoError)
            ELSE Result([h1 EXCEPT !.state = handshakeSynRcvd],
                        <<sendSynTCP(h1.flags, h1.iss, h1.ackNum, h1.rcvWnd,
                                     h1.rcvWndScale)>>,
                        NoError)

\* A variant of synRcvdState in which an active handshake that meets a
\* second SYN stays in SynRcvd and sends SYN|ACK again.
synRcvdStateStays(hh, s, rnd) ==
    IF flagIsSet(s, flagRst) THEN
        IF InWindow(s.sequenceNumber, hh.ackNum, hh.rcvWnd)
        THEN Result(hh, <<>>, ErrConnectionRefused)
        ELSE Result(hh, <<>>, NoError)
    ELSE IF checkAck(hh, s) # <<>> THEN Result(hh, checkAck(hh, s), NoError)
    ELSE IF flagIsSet(s, flagSyn) /\ s.sequenceNumber # Sub32(hh.ackNum, U32(1)) THEN
        LET rst == sendRaw({flagRst, flagAck},
                           IF flagIsSet(s, flagAck) THEN s.ackNumber ELSE U32(0),
                           Add32(s.sequenceNumber, logicalLen(s)), U32(0))
            r == resetState(hh, rnd)
            h1 == [r.h EXCEPT !.state = handshakeSynRcvd,
                              !.flags = {flagSyn, flagAck},
                              !.ackNum = hh.ackNum]
        IN IF ~hh.active THEN Result(hh, <<rst>>, ErrInvalidEndpointState)
           ELSE IF r.err # NoError THEN Result(hh, <<rst>>, r.err)
           ELSE Result(h1,
                       <<rst, sendSynTCP(h1.flags, h1.iss, h1.ackNum, h1.rcvWnd,
                                         h1.rcvWndScale)>>,
                       NoError)
    ELSE IF flagIsSet(s, flagAck)
    THEN Result([hh EXCEPT !.state = handshakeCompleted], <<>>, NoError)
    ELSE Result(hh, <<>>, NoError)

\* handshake.synRcvdState; rnd is what rand.Read delivers if it is called.
synRcvdState(hh, s, rnd) ==
    IF flagIsSet(s, flagRst) THEN
        IF InWindow(s.sequenceNumber, hh.ackNum, hh.rcvWnd)
        THEN Result(hh, <<>>, ErrConnectionRefused)
        ELSE Result(hh, <<>>, NoError)
    ELSE IF checkAck(hh, s) # <<>> THEN Result(hh, checkAck(hh, s), NoError)
    ELSE IF flagIsSet(s, flagSyn) /\ s.sequenceNumber # Sub32(hh.ackNum, U32(1)) THEN
        LET rst == sendRaw({flagRst, flagAck},
                           IF flagIsSet(s, flagAck) THEN s.ackNumber ELSE U32(0),
                           Add32(s.sequenceNumber, logicalLen(s)), U32(0))
            r == resetState(hh, rnd)
        IN IF ~hh.active THEN Result(hh, <<rst>>, ErrInvalidEndpointState)
           ELSE IF r.err # NoError THEN Result(hh, <<rst>>, r.err)
           ELSE Result(r.h,
                       <<rst, sendSynTCP(r.h.flags, r.h.iss, r.h.ackNum, r.h.rcvWnd,
                                         r.h.rcvWndScale)>>,
                       NoError)
    ELSE IF flagIsSet(s, flagAck)
    THEN Result([hh EXCEPT !.state = handshakeCompleted], <<>>, NoError)
    ELSE Result(hh, <<>>, NoError)

\* The body of the loop of handshake.processSegments for segment s.
ProcessOne(hh, s, rnd) ==
    LET h1 == [hh EXCEPT !.sndWnd =
                   IF ~flagIsSet(s, flagSyn) /\ hh.sndWndScale > 0
                   THEN Shl32(s.window, hh.sndWndScale % 256)
                   ELSE s.window]
    IN IF h1.state = handshakeSynRcvd THEN synRcvdState(h1, s, rnd)
       ELSE IF h1.state = handshakeSynSent THEN synSentState(h1, s)
       ELSE Result(h1, <<>>, NoError)

\* handshake.processSegments from iteration i on, with queue q; rnds are the
\* values rand.Read delivers, one for each segment still in the queue.  wake
\* says that newSegmentWaker is asserted before the return.
RECURSIVE ProcessFrom(_, _, _, _, _)
ProcessFrom(hh, q, i, rnds, o) ==
    IF i >= maxSegmentsPerWake
    THEN [h |-> hh, queue |-> q, out |-> o, err |-> NoError, hang |-> FALSE,
          wake |-> q # <<>>]
    ELSE IF q = <<>>
    THEN [h |-> hh, queue |-> q, out |-> o, err |-> NoError, hang |-> FALSE,
          wake |-> FALSE]
    ELSE LET r == ProcessOne(hh, Head(q), Head(rnds)) IN
    IF r.hang \/ r.err # NoError
    THEN [h |-> r.h, queue |-> Tail(q), out |-> o \o r.out, err |-> r.err,
          hang |-> r.hang, wake |-> FALSE]
    ELSE IF r.h.state = handshakeCompleted
    THEN [h |-> r.h, queue |-> Tail(q), out |-> o \o r.out, err |-> NoError,
          hang |-> FALSE, wake |-> Tail(q) # <<>>]
    ELSE ProcessFrom(r.h, Tail(q), i + 1, Tail(rnds), o \o r.out)

processSegments(hh, q, rnds) == ProcessFrom(hh, q, 0, rnds, <<>>)

(* The wakers of the driver.  Part I shows that a sleeper returns the     *)
(* asserted wakers in the order in which they were enqueued, each once;   *)
(* ready is that list.                                                     *)

InSeq(q, x) == \E i \in 1..Len(q) : q[i] = x

\* Waker.Assert on waker w: nothing happens if w is asserted already.
AssertWaker(r, w) == IF InSeq(r, w) THEN r ELSE Append(r, w)

\* What is left asserted when execute returns: resendWaker is a local
\* variable of execute, the endpoint's wakers stay as they are.
RECURSIVE DropResend(_)
DropResend(r) ==
    IF r = <<>> THEN <<>>
    ELSE IF Head(r) = wakerForResend THEN DropResend(Tail(r))
    ELSE <<Head(r)>> \o DropResend(Tail(r))

(* Inputs *)

\* The capacity of endpoint.segmentQueue in the model.
MaxQueue == 1

\* The number of segments that arrive during one handshake.
MaxArrivals == 2

\* e.receiveBufferAvailable() when the handshake begins.
RcvWndValues == {U32(65535), U32(65536)}

\* What rand.Read can do: deliver four bytes, or fail.
RandValues == IssValues \cup {<<>>}

\* The window field of the segments the peer sends.
PeerWindows == {U32(4096)}

\* Initial sequence numbers the peer may choose.
PeerIss == {<<65535, 65534>>}

\* Option regions of the SYN segments of the peer: MSS 1460 with WS 2 and a
\* NOP; none; SACK-permitted in front of MSS 1460; an MSS option of value
\* zero; two NOPs and a timestamp option.
PeerOptions ==
    { <<2, 4, 5, 180, 3, 3, 2, 1>>,
      <<>>,
      <<4, 2, 2, 4, 5, 180>>,
      <<2, 4, 0, 0>>,
      <<1, 1, 8, 10, 0, 0, 0, 0, 0, 0, 0, 0>> }

\* The peer's SYN was accepted: the handshake is in SYN-RCVD or beyond.
SynAccepted(hh) == flagAck \in hh.flags

\* Sequence numbers of the SYN segments of the peer: an initial sequence
\* number, and once a SYN was accepted its sequence number and another one.
SynSeqs(hh) ==
    IF SynAccepted(hh)
    THEN {Sub32(hh.ackNum, U32(1)), Add32(hh.ackNum, hh.rcvWnd)}
    ELSE PeerIss

\* Sequence numbers of the RST segments of the peer: around both edges of
\* [ackNum, ackNum + rcvWnd) once a SYN was accepted.
RstSeqs(hh) ==
    IF SynAccepted(hh)
    THEN {Sub32(hh.ackNum, U32(1)), hh.ackNum,
          Add32(hh.ackNum, Sub32(hh.rcvWnd, U32(1))), Add32(hh.ackNum, hh.rcvWnd)}
    ELSE PeerIss

\* Acknowledgement numbers the segments of the peer carry.
PeerAcks(hh) == {Add32(hh.iss, U32(1)), Add32(hh.iss, U32(2))}

\* The segments that can arrive while the handshake object is hh.
Segs(hh) ==
    {Segment({flagSyn, flagAck}, q, Add32(hh.iss, U32(1)), w, o, 0) :
        q \in SynSeqs(hh), w \in PeerWindows,
        o \in IF SynAccepted(hh) THEN {<<>>} ELSE PeerOptions}
    \cup {Segment({flagSyn, flagAck}, Sub32(hh.ackNum, U32(1)), Add32(hh.iss, U32(2)),
                  w, <<>>, 0) : w \in PeerWindows}
    \cup {Segment({flagSyn}, q, U32(0), w, o, 0) :
        q \in SynSeqs(hh), w \in PeerWindows,
        o \in IF SynAccepted(hh) THEN {<<>>}
              ELSE {<<>>, <<2, 4, 5, 180, 3, 3, 2, 1>>, <<4, 2, 2, 4, 5, 180>>}}
    \cup {Segment({flagAck}, hh.ackNum, Add32(hh.iss, U32(1)), w, <<>>, d) :
        w \in PeerWindows, d \in {0, 1}}
    \cup {Segment({flagAck}, hh.ackNum, Add32(hh.iss, U32(2)), w, <<>>, 1) :
        w \in PeerWindows}
    \cup {Segment({flagRst}, q, U32(0), U32(0), <<>>, 0) : q \in RstSeqs(hh)}
    \cup {Segment({flagRst, flagAck}, hh.ackNum, a, U32(0), <<>>, 0) : a \in PeerAcks(hh)}

(* Steps of the driver (protocolMainLoop) and of its environment *)

\* execute returns: the deferred s.Done() and rt.Stop().
LeaveExecute(r) ==
    /\ ready' = DropResend(r)
    /\ armed' = FALSE

\* protocolMainLoop up to the first Fetch of execute: newHandshake and the
\* prologue of execute, which arms the timer, adds the wakers and sends
\* the first SYN.
StartHandshake(rcvWnd, rnd) ==
    /\ dpc = "init"
    /\ LET r == newHandshake(rcvWnd, rnd) IN
       IF r.err # NoError
       THEN /\ hsErr' = r.err
            /\ dpc' = "failed"
            /\ out' = <<>>
            /\ UNCHANGED <<h, timeOut, armed, deadline, ready, synLog>>
       ELSE /\ h' = r.h
            /\ timeOut' = 1
            /\ armed' = TRUE
            /\ deadline' = now + 1
            /\ out' = <<sendSynTCP(r.h.flags, r.h.iss, r.h.ackNum, r.h.rcvWnd,
                                   r.h.rcvWndScale)>>
            /\ synLog' = IF quiet THEN <<[t |-> now, seq |-> r.h.iss, flags |-> r.h.flags]>>
                         ELSE <<>>
            /\ dpc' = "handshake"
            /\ UNCHANGED <<hsErr, ready>>
    /\ UNCHANGED <<segmentQueue, notifyFlags, now, quiet, e_state,
                   lastError, hardError, snd, rcv, notified, exitLog, delivered>>

\* The function given to time.AfterFunc and rt.Reset runs: the timer has
\* expired.
TimerFire ==
    /\ dpc = "handshake"
    /\ armed
    /\ armed' = FALSE
    /\ now' = deadline
    /\ ready' = AssertWaker(ready, wakerForResend)
    /\ UNCHANGED <<h, segmentQueue, notifyFlags, timeOut, deadline,
                   out, synLog, quiet, hsErr, dpc, e_state, lastError, hardError,
                   snd, rcv, notified, exitLog, delivered>>

\* A variant of the wakerForResend case that compares timeOut with 60 s
\* before it doubles it.
HandleResendCompareFirst ==
    /\ dpc = "handshake"
    /\ ready # <<>> /\ Head(ready) = wakerForResend
    /\ timeOut' = timeOut * 2
    /\ IF timeOut > 60
       THEN /\ hsErr' = ErrTimeout
            /\ dpc' = "failed"
            /\ out' = <<>>
            /\ LeaveExecute(Tail(ready))
            /\ UNCHANGED <<deadline, synLog>>
       ELSE /\ armed' = TRUE
            /\ deadline' = now + timeOut * 2
            /\ out' = <<sendSynTCP(h.flags, h.iss, h.ackNum, h.rcvWnd, h.rcvWndScale)>>
            /\ synLog' = IF quiet
                         THEN Append(synLog, [t |-> now, seq |-> h.iss, flags |-> h.flags])
                         ELSE <<>>
            /\ ready' = Tail(ready)
            /\ UNCHANGED <<hsErr, dpc>>
    /\ UNCHANGED <<h, segmentQueue, notifyFlags, now, quiet, e_state,
                   lastError, hardError, snd, rcv, notified, exitLog, delivered>>

\* Fetch returns wakerForResend.
HandleResend ==
    /\ dpc = "handshake"
    /\ ready # <<>> /\ Head(ready) = wakerForResend
    /\ timeOut' = timeOut * 2
    /\ IF timeOut * 2 > 60
       THEN /\ hsErr' = ErrTimeout
            /\ dpc' = "failed"
            /\ out' = <<>>
            /\ LeaveExecute(Tail(ready))
            /\ UNCHANGED <<deadline, synLog>>
       ELSE /\ armed' = TRUE
            /\ deadline' = now + timeOut * 2
            /\ out' = <<sendSynTCP(h.flags, h.iss, h.ackNum, h.rcvWnd, h.rcvWndScale)>>
            /\ synLog' = IF quiet
                         THEN Append(synLog, [t |-> now, seq |-> h.iss, flags |-> h.flags])
                         ELSE <<>>
            /\ ready' = Tail(ready)
            /\ UNCHANGED <<hsErr, dpc>>
    /\ UNCHANGED <<h, segmentQueue, notifyFlags, now, quiet, e_state,
                   lastError, hardError, snd, rcv, notified, exitLog, delivered>>

\* Fetch returns wakerForNotification.
HandleNotification ==
    /\ dpc = "handshake"
    /\ ready # <<>> /\ Head(ready) = wakerForNotification
    /\ notifyFlags' = {}
    /\ out' = <<>>
    /\ IF notifyClose \in notifyFlags
       THEN /\ hsErr' = ErrAborted
            /\ dpc' = "failed"
            /\ LeaveExecute(Tail(ready))
       ELSE /\ ready' = Tail(ready)
            /\ UNCHANGED <<hsErr, dpc, armed>>
    /\ UNCHANGED <<h, segmentQueue, timeOut, deadline, now, synLog,
                   quiet, e_state, lastError, hardError, snd, rcv, notified, exitLog, delivered>>

\* Fetch returns wakerForNewSegment.
HandleNewSegment(rnds) ==
    /\ dpc = "handshake"
    /\ ready # <<>> /\ Head(ready) = wakerForNewSegment
    /\ LET r == processSegments(h, segmentQueue, rnds)
           rest == IF r.wake THEN AssertWaker(Tail(ready), wakerForNewSegment)
                   ELSE Tail(ready)
       IN /\ h' = r.h
          /\ segmentQueue' = r.queue
          /\ out' = r.out
          /\ IF r.hang
             THEN /\ dpc' = "hung"
                  /\ ready' = rest
                  /\ UNCHANGED <<hsErr, armed>>
             ELSE IF r.err # NoError
             THEN /\ hsErr' = r.err
                  /\ dpc' = "failed"
                  /\ LeaveExecute(rest)
             ELSE IF r.h.state = handshakeCompleted
             THEN /\ dpc' = "completed"
                  /\ LeaveExecute(rest)
                  /\ UNCHANGED hsErr
             ELSE /\ ready' = rest
                  /\ UNCHANGED <<hsErr, dpc, armed>>
    /\ UNCHANGED <<notifyFlags, timeOut, deadline, now, synLog, quiet,
                   e_state, lastError, hardError, snd, rcv, notified, exitLog, delivered>>

(* The sender and the receiver, as far as the driver reads and writes them *)

\* newSender: nothing is in flight and nothing is queued; writeList is kept
\* as the number of bytes on it.
newSender(iss, irs, sndWnd, mss, sndWndScale) ==
    [iss |-> iss, irs |-> irs, sndWnd |-> sndWnd, mss |-> mss,
     sndWndScale |-> sndWndScale, writeList |-> 0,
     sndUna |-> Add32(iss, U32(1)), sndNxtList |-> Add32(iss, U32(1)),
     maxSentAck |-> Add32(irs, U32(1)), closed |-> FALSE]

\* newReceiver: the next byte expected is the one after the peer's SYN.
newReceiver(irs, rcvWnd, rcvWndScale) ==
    [irs |-> irs, rcvWnd |-> rcvWnd, rcvWndScale |-> rcvWndScale,
     rcvNxt |-> Add32(irs, U32(1)), closed |-> FALSE]

\* receiver.acceptable(segSeq, 0)
acceptable(rr, segSeq) ==
    IF rr.rcvWnd = U32(0) THEN segSeq = rr.rcvNxt
    ELSE InWindow(segSeq, rr.rcvNxt, rr.rcvWnd)

\* receiver.handleRcvdSegment: a segment that begins at rcvNxt is consumed,
\* and its FIN closes the receiving side.
rcvHandleRcvdSegment(rr, s) ==
    IF s.sequenceNumber = rr.rcvNxt /\ ~rr.closed
    THEN [rr EXCEPT !.rcvNxt = Add32(@, logicalLen(s)),
                    !.closed = flagIsSet(s, flagFin)]
    ELSE rr

\* sender.handleRcvdSegment: an acknowledgement of bytes in
\* (sndUna, sndNxtList] moves sndUna.
sndHandleRcvdSegment(sr, s) ==
    IF InWindow(Sub32(s.ackNumber, U32(1)), sr.sndUna, Sub32(sr.sndNxtList, sr.sndUna))
    THEN [sr EXCEPT !.sndUna = s.ackNumber]
    ELSE sr

\* sender.sendAck
sendAck(sr, rr) == [sr EXCEPT !.maxSentAck = rr.rcvNxt]

\* A variant of the transfer that takes ackNum for the initial sequence
\* number of the peer.
transferIrsIsAckNum(hh) ==
    [snd |-> newSender(hh.iss, hh.ackNum, hh.sndWnd, hh.mss, hh.sndWndScale),
     rcv |-> newReceiver(hh.ackNum, hh.rcvWnd, effectiveRcvWndScale(hh))]

\* The transfer of the state of handshake hh to the connection: the sender
\* and the receiver protocolMainLoop creates.
transfer(hh) ==
    [snd |-> newSender(hh.iss, Sub32(hh.ackNum, U32(1)), hh.sndWnd, hh.mss,
                       hh.sndWndScale),
     rcv |-> newReceiver(Sub32(hh.ackNum, U32(1)), hh.rcvWnd, effectiveRcvWndScale(hh))]

\* protocolMainLoop after execute returned nil: the sender and the receiver
\* are created, the state becomes connected and the waiters are told.
PublishConnected ==
    /\ dpc = "completed"
    /\ snd' = <<transfer(h).snd>>
    /\ rcv' = <<transfer(h).rcv>>
    /\ e_state' = stateConnected
    /\ notified' = Append(notified, {EventOut})
    /\ exitLog' = exitLog
    /\ dpc' = "connected"
    /\ out' = <<>>
    /\ UNCHANGED <<h, segmentQueue, notifyFlags, ready, timeOut, armed,
                   deadline, now, synLog, quiet, hsErr, lastError, hardError, delivered>>

\* A variant of the deferred function that runs completeWorker first.
deferredHookFirst ==
    <<"completeWorker", "Notify">>
    \o (IF snd # <<>> THEN <<"resendTimer.Stop">> ELSE <<>>)
    \o (IF closeTimer # "nil" THEN <<"closeTimer.Stop">> ELSE <<>>)

\* The calls of the deferred function of protocolMainLoop, in order: the
\* timers are stopped only if e.snd and closeTimer are not nil.
deferred ==
    <<"Notify", "completeWorker">>
    \o (IF snd # <<>> THEN <<"resendTimer.Stop">> ELSE <<>>)
    \o (IF closeTimer # "nil" THEN <<"closeTimer.Stop">> ELSE <<>>)

\* A variant of the failure path that records the error in lastError only.
FailHandshakeLastErrorOnly ==
    /\ dpc = "failed"
    /\ lastError' = hsErr
    /\ e_state' = stateError
    /\ notified' = Append(notified, {EventIn, EventOut})
    /\ exitLog' = <<"state">> \o deferred
    /\ dpc' = "exited"
    /\ out' = <<>>
    /\ UNCHANGED <<h, segmentQueue, notifyFlags, ready, timeOut, armed, hardError,
                   deadline, now, synLog, quiet, hsErr, snd, rcv, delivered>>

\* protocolMainLoop after newHandshake or execute returned an error, and the
\* deferred function of protocolMainLoop.
FailHandshake ==
    /\ dpc = "failed"
    /\ lastError' = hsErr
    /\ e_state' = stateError
    /\ hardError' = hsErr
    /\ notified' = Append(notified, {EventIn, EventOut})
    /\ exitLog' = <<"state">> \o deferred
    /\ dpc' = "exited"
    /\ out' = <<>>
    /\ UNCHANGED <<h, segmentQueue, notifyFlags, ready, timeOut, armed,
                   deadline, now, synLog, quiet, hsErr, snd, rcv, delivered>>

\* A segment for the endpoint arrives: it is put in the segment queue and
\* newSegmentWaker is asserted.
Deliver(s) ==
    /\ dpc = "handshake"
    /\ Len(segmentQueue) < MaxQueue
    /\ delivered < MaxArrivals
    /\ delivered' = delivered + 1
    /\ segmentQueue' = Append(segmentQueue, s)
    /\ ready' = AssertWaker(ready, wakerForNewSegment)
    /\ quiet' = FALSE
    /\ synLog' = <<>>
    /\ UNCHANGED <<h, notifyFlags, timeOut, armed, deadline, now, out, hsErr,
                   dpc, e_state, lastError, hardError, snd, rcv, notified, exitLog>>

\* Another goroutine notifies the driver: the flag is set in notifyFlags
\* and notificationWaker is asserted.
Notify(n) ==
    /\ dpc \in {"init", "handshake"}
    /\ n \notin notifyFlags
    /\ notifyFlags' = notifyFlags \cup {n}
    /\ ready' = AssertWaker(ready, wakerForNotification)
    /\ quiet' = FALSE
    /\ synLog' = <<>>
    /\ UNCHANGED <<h, segmentQueue, timeOut, armed, deadline, now, out, hsErr,
                   dpc, e_state, lastError, hardError, snd, rcv, notified, exitLog, delivered>>

(* The main loop of protocolMainLoop *)

\* What the main loop leaves alone: the handshake is over.
hsVars == <<h, timeOut, armed, deadline, synLog, quiet, hsErr, lastError>>

\* What an event from outside leaves alone.
drvRest == <<closeTimer, closeDeadline, sndBufInQueue, batch, handled, armCount,
             closeSeen, workMu>>

\* protocolMainLoop sets up funcs and the sleeper: a waker that is asserted
\* when AddWaker is called is enqueued, in the order of funcs.
SetUpSleeper ==
    /\ dpc = "connected"
    /\ ready' = (IF InSeq(ready, wakerForNewSegment) THEN <<idxNewSegmentWaker>> ELSE <<>>)
                \o (IF InSeq(ready, wakerForNotification)
                    THEN <<idxNotificationWaker>> ELSE <<>>)
    /\ dpc' = "loop"
    /\ out' = <<>>
    /\ UNCHANGED <<segmentQueue, notifyFlags, now, e_state, hardError, snd, rcv,
                   notified, exitLog, delivered>>
    /\ UNCHANGED <<hsVars, drvVars>>

\* A variant of the test of the main loop that does not look at the bytes
\* still unacknowledged.
LoopCondWithoutUnacked ==
    \/ ~rcv[1].closed
    \/ ~snd[1].closed

\* The test of the main loop.
LoopCond ==
    \/ ~rcv[1].closed
    \/ ~snd[1].closed
    \/ snd[1].sndUna # snd[1].sndNxtList

\* protocolMainLoop returns after it has stored the final state: the
\* deferred function notifies the waiters, completes the worker and stops
\* the timers.
DeferredExit ==
    /\ notified' = Append(notified, {EventIn, EventOut})
    /\ exitLog' = <<"state">> \o deferred
    /\ closeTimer' = IF closeTimer = "armed" THEN "stopped" ELSE closeTimer
    /\ dpc' = "exited"

\* The test of the main loop fails: the endpoint is marked as closed and
\* protocolMainLoop returns.
ExitLoop ==
    /\ dpc = "loop"
    /\ ~LoopCond
    /\ e_state' = stateClosed
    /\ out' = <<>>
    /\ DeferredExit
    /\ UNCHANGED <<segmentQueue, notifyFlags, ready, now, hardError, snd, rcv, delivered>>
    /\ UNCHANGED <<hsVars, events, closeDeadline, sndBufInQueue, batch, handled, armCount,
                   closeSeen>>
    /\ UNCHANGED workMu

\* The test of the main loop holds: the driver releases workMu and calls
\* s.Fetch(true).
UnlockForFetch ==
    /\ dpc = "loop"
    /\ LoopCond
    /\ dpc' = "fetch"
    /\ workMu' = "none"
    /\ out' = <<>>
    /\ UNCHANGED <<segmentQueue, notifyFlags, ready, now, e_state, hardError, snd, rcv,
                   notified, exitLog, delivered>>
    /\ UNCHANGED <<hsVars, closeTimer, closeDeadline, sndBufInQueue, batch, handled,
                   armCount, closeSeen, events>>

\* Another task locks workMu.
ExternalLock ==
    /\ workMu = "none"
    /\ workMu' = "ext"
    /\ UNCHANGED <<segmentQueue, notifyFlags, ready, now, out, dpc, e_state, hardError,
                   snd, rcv, notified, exitLog, delivered>>
    /\ UNCHANGED <<hsVars, closeTimer, closeDeadline, sndBufInQueue, batch, handled,
                   armCount, closeSeen, events>>

\* The other task unlocks workMu.
ExternalUnlock ==
    /\ workMu = "ext"
    /\ workMu' = "none"
    /\ UNCHANGED <<segmentQueue, notifyFlags, ready, now, out, dpc, e_state, hardError,
                   snd, rcv, notified, exitLog, delivered>>
    /\ UNCHANGED <<hsVars, closeTimer, closeDeadline, sndBufInQueue, batch, handled,
                   armCount, closeSeen, events>>

\* A variant of Fetched in which e.workMu.Lock() does not wait.
FetchedWithoutLock(idx) ==
    /\ dpc = "fetch"
    /\ ready # <<>> /\ Head(ready) = idx

\* s.Fetch(true) returns idx, the index of the asserted waker that comes
\* first, and e.workMu.Lock() returns: no other task holds workMu.
Fetched(idx) ==
    /\ dpc = "fetch"
    /\ ready # <<>> /\ Head(ready) = idx
    /\ workMu = "none"

\* endpoint.handleWrite on sender sr with q bytes in the send queue.
handleWrite(sr, q) ==
    IF sr.closed THEN [snd |-> sr, q |-> q]
    ELSE [snd |-> [sr EXCEPT !.writeList = @ + q,
                             !.sndNxtList = Add32(@, U32(q))],
          q |-> 0]

\* A variant of handleClose that does not test whether the sender is closed.
handleCloseAgain(sr, q) ==
    LET w == handleWrite(sr, q)
    IN [snd |-> [w.snd EXCEPT !.closed = TRUE, !.sndNxtList = Add32(@, U32(1))],
        q |-> w.q]

\* endpoint.handleClose
handleClose(sr, q) ==
    IF sr.closed THEN [snd |-> sr, q |-> q]
    ELSE LET w == handleWrite(sr, q)
         IN [snd |-> [w.snd EXCEPT !.closed = TRUE, !.sndNxtList = Add32(@, U32(1))],
             q |-> w.q]

\* Fetch returns the index of sndWaker.
HandleWrite ==
    /\ Fetched(idxSndWaker)
    /\ ready' = Tail(ready)
    /\ snd' = <<handleWrite(snd[1], sndBufInQueue).snd>>
    /\ sndBufInQueue' = handleWrite(snd[1], sndBufInQueue).q
    /\ out' = <<>>
    /\ workMu' = "driver"
    /\ dpc' = "loop"
    /\ UNCHANGED <<segmentQueue, notifyFlags, now, e_state, hardError, rcv,
                   notified, exitLog, delivered>>
    /\ UNCHANGED <<hsVars, events, closeTimer, closeDeadline, batch, handled, armCount, closeSeen>>

\* Fetch returns the index of sndCloseWaker.
HandleClose ==
    /\ Fetched(idxSndCloseWaker)
    /\ ready' = Tail(ready)
    /\ snd' = <<handleClose(snd[1], sndBufInQueue).snd>>
    /\ sndBufInQueue' = handleClose(snd[1], sndBufInQueue).q
    /\ out' = <<>>
    /\ workMu' = "driver"
    /\ dpc' = "loop"
    /\ UNCHANGED <<segmentQueue, notifyFlags, now, e_state, hardError, rcv,
                   notified, exitLog, delivered>>
    /\ UNCHANGED <<hsVars, events, closeTimer, closeDeadline, batch, handled, armCount, closeSeen>>

\* endpoint.resetConnection(err), after which the handler returns false and
\* protocolMainLoop returns.
ResetAndExit(err) ==
    /\ out' = <<sendRaw({flagAck, flagRst}, snd[1].sndUna, rcv[1].rcvNxt, U32(0))>>
    /\ e_state' = stateError
    /\ hardError' = err
    /\ DeferredExit

\* Fetch returns the index of newSegmentWaker: handleSegments begins.
BeginSegments ==
    /\ Fetched(idxNewSegmentWaker)
    /\ ready' = Tail(ready)
    /\ workMu' = "driver"
    /\ batch' = 0
    /\ dpc' = "segments"
    /\ out' = <<>>
    /\ UNCHANGED <<segmentQueue, notifyFlags, now, e_state, hardError, snd, rcv,
                   notified, exitLog, delivered>>
    /\ UNCHANGED <<hsVars, events, closeTimer, closeDeadline, sndBufInQueue, handled, armCount,
                   closeSeen>>

\* The window of segment s, shifted by the sender's window scale.
Patched(s, sr) ==
    [s EXCEPT !.window = Shl32(@, IF sr.sndWndScale > 0 THEN sr.sndWndScale ELSE 0)]

\* A variant of the loop body of handleSegments that does not ask the
\* receiver whether the sequence number of an RST is acceptable.
SegmentStepAnyRst ==
    /\ dpc = "segments"
    /\ batch < maxSegmentsPerWake
    /\ segmentQueue # <<>>
    /\ segmentQueue' = Tail(segmentQueue)
    /\ out' = <<>>
    /\ LET s == Head(segmentQueue) IN
       IF flagIsSet(s, flagRst)
       THEN /\ e_state' = stateError
            /\ hardError' = ErrConnectionReset
            /\ DeferredExit
            /\ UNCHANGED <<snd, rcv, batch, handled>>
       ELSE IF flagIsSet(s, flagAck)
       THEN /\ rcv' = <<rcvHandleRcvdSegment(rcv[1], Patched(s, snd[1]))>>
            /\ snd' = <<sndHandleRcvdSegment(snd[1], Patched(s, snd[1]))>>
            /\ handled' = Append(handled, Patched(s, snd[1]))
            /\ batch' = batch + 1
            /\ UNCHANGED <<e_state, hardError, notified, exitLog, closeTimer, dpc>>
       ELSE /\ batch' = batch + 1
            /\ UNCHANGED <<e_state, hardError, notified, exitLog, closeTimer, dpc, snd, rcv,
                           handled>>
    /\ UNCHANGED <<notifyFlags, ready, now, delivered>>
    /\ UNCHANGED <<hsVars, events, closeDeadline, sndBufInQueue, armCount, closeSeen>>
    /\ UNCHANGED workMu

\* The body of the loop of handleSegments, for the segment at the head of
\* the queue.
SegmentStep ==
    /\ dpc = "segments"
    /\ batch < maxSegmentsPerWake
    /\ segmentQueue # <<>>
    /\ segmentQueue' = Tail(segmentQueue)
    /\ out' = <<>>
    /\ LET s == Head(segmentQueue) IN
       IF flagIsSet(s, flagRst) /\ acceptable(rcv[1], s.sequenceNumber)
       THEN /\ e_state' = stateError
            /\ hardError' = ErrConnectionReset
            /\ DeferredExit
            /\ UNCHANGED <<snd, rcv, batch, handled>>
       ELSE IF ~flagIsSet(s, flagRst) /\ flagIsSet(s, flagAck)
       THEN /\ rcv' = <<rcvHandleRcvdSegment(rcv[1], Patched(s, snd[1]))>>
            /\ snd' = <<sndHandleRcvdSegment(snd[1], Patched(s, snd[1]))>>
            /\ handled' = Append(handled, Patched(s, snd[1]))
            /\ batch' = batch + 1
            /\ UNCHANGED <<e_state, hardError, notified, exitLog, closeTimer, dpc>>
       ELSE /\ batch' = batch + 1
            /\ UNCHANGED <<e_state, hardError, notified, exitLog, closeTimer, dpc, snd, rcv,
                           handled>>
    /\ UNCHANGED <<notifyFlags, ready, now, delivered>>
    /\ UNCHANGED <<hsVars, events, closeDeadline, sndBufInQueue, armCount, closeSeen>>
    /\ UNCHANGED workMu

\* A variant of the end of handleSegments that puts newSegmentWaker in front
\* of the wakers asserted before.
EndSegmentsAtFront ==
    /\ dpc = "segments"
    /\ batch >= maxSegmentsPerWake \/ segmentQueue = <<>>
    /\ ready' = IF segmentQueue # <<>> /\ ~InSeq(ready, idxNewSegmentWaker)
                THEN <<idxNewSegmentWaker>> \o ready
                ELSE ready
    /\ snd' = IF rcv[1].rcvNxt # snd[1].maxSentAck THEN <<sendAck(snd[1], rcv[1])>>
              ELSE snd
    /\ dpc' = "loop"
    /\ out' = <<>>
    /\ UNCHANGED <<segmentQueue, notifyFlags, now, e_state, hardError, rcv, notified, exitLog,
                   delivered>>
    /\ UNCHANGED <<hsVars, drvVars>>

\* The loop of handleSegments ends, after maxSegmentsPerWake segments or with
\* an empty queue: newSegmentWaker is asserted if segments are left, an ACK is
\* sent if needed, and the main loop goes on.
EndSegments ==
    /\ dpc = "segments"
    /\ batch >= maxSegmentsPerWake \/ segmentQueue = <<>>
    /\ ready' = IF segmentQueue # <<>> THEN AssertWaker(ready, idxNewSegmentWaker)
                ELSE ready
    /\ snd' = IF rcv[1].rcvNxt # snd[1].maxSentAck THEN <<sendAck(snd[1], rcv[1])>>
              ELSE snd
    /\ dpc' = "loop"
    /\ out' = <<>>
    /\ UNCHANGED <<segmentQueue, notifyFlags, now, e_state, hardError, rcv, notified, exitLog,
                   delivered>>
    /\ UNCHANGED <<hsVars, drvVars>>

\* Fetch returns the index of closeWaker.
HandleCloseWaker ==
    /\ Fetched(idxCloseWaker)
    /\ ready' = Tail(ready)
    /\ workMu' = "driver"
    /\ ResetAndExit(ErrConnectionAborted)
    /\ UNCHANGED <<segmentQueue, notifyFlags, now, snd, rcv, delivered>>
    /\ UNCHANGED <<hsVars, events, closeDeadline, sndBufInQueue, batch, handled, armCount,
                   closeSeen>>

\* Fetch returns the index of the sender's resendWaker; expired is what
\* sender.retransmitTimerExpired returns.
HandleResendWaker(expired) ==
    /\ Fetched(idxResendWaker)
    /\ ready' = Tail(ready)
    /\ workMu' = "driver"
    /\ IF ~expired
       THEN ResetAndExit(ErrTimeout)
       ELSE /\ out' = <<>>
            /\ dpc' = "loop"
            /\ UNCHANGED <<e_state, hardError, notified, exitLog, closeTimer>>
    /\ UNCHANGED <<segmentQueue, notifyFlags, now, snd, rcv, delivered>>
    /\ UNCHANGED <<hsVars, events, closeDeadline, sndBufInQueue, batch, handled, armCount,
                   closeSeen>>

\* A variant of the notification handler that arms a timer for every Close
\* notification.
HandleNotificationWakerArmsAgain ==
    /\ Fetched(idxNotificationWaker)
    /\ ready' = Tail(ready)
    /\ workMu' = "driver"
    /\ notifyFlags' = {}
    /\ out' = <<>>
    /\ closeSeen' = closeSeen + (IF notifyClose \in notifyFlags THEN 1 ELSE 0)
    /\ IF notifyClose \in notifyFlags
       THEN /\ closeTimer' = "armed"
            /\ closeDeadline' = now + 3
            /\ armCount' = armCount + 1
       ELSE UNCHANGED <<closeTimer, closeDeadline, armCount>>
    /\ dpc' = "loop"
    /\ UNCHANGED <<segmentQueue, now, e_state, hardError, snd, rcv, notified, exitLog,
                   delivered>>
    /\ UNCHANGED <<hsVars, events, sndBufInQueue, batch, handled>>

\* Fetch returns the index of notificationWaker.
HandleNotificationWaker ==
    /\ Fetched(idxNotificationWaker)
    /\ ready' = Tail(ready)
    /\ workMu' = "driver"
    /\ notifyFlags' = {}
    /\ out' = <<>>
    /\ closeSeen' = closeSeen + (IF notifyClose \in notifyFlags THEN 1 ELSE 0)
    /\ IF notifyClose \in notifyFlags /\ closeTimer = "nil"
       THEN /\ closeTimer' = "armed"
            /\ closeDeadline' = now + 3
            /\ armCount' = armCount + 1
       ELSE UNCHANGED <<closeTimer, closeDeadline, armCount>>
    /\ dpc' = "loop"
    /\ UNCHANGED <<segmentQueue, now, e_state, hardError, snd, rcv, notified, exitLog,
                   delivered>>
    /\ UNCHANGED <<hsVars, events, sndBufInQueue, batch, handled>>

(* The environment of the main loop *)

\* The capacity of endpoint.segmentQueue while the connection is established.
MaxPending == 2

\* The number of events that reach the main loop from outside: segments,
\* notifications, writes, shutdowns and expiries of the retransmit timer.
MaxEvents == 3

\* One more event from outside.
Event ==
    /\ events < MaxEvents
    /\ events' = events + 1

\* The main loop runs.
InMainLoop == dpc \in {"loop", "fetch", "segments"}

\* The segments that can arrive while sender and receiver are sr and rr.
EstSegs(sr, rr) ==
    {Segment({flagAck}, rr.rcvNxt, a, U32(4096), <<>>, d) :
        a \in {sr.sndNxtList}, d \in {0, 1}}
    \cup {Segment({flagAck, flagFin}, rr.rcvNxt, sr.sndNxtList, U32(4096), <<>>, 0)}
    \cup {Segment({}, rr.rcvNxt, U32(0), U32(4096), <<>>, 1)}
    \cup {Segment({flagRst}, q, U32(0), U32(0), <<>>, 0) :
        q \in {Sub32(rr.rcvNxt, U32(1)), rr.rcvNxt,
               Add32(rr.rcvNxt, Sub32(rr.rcvWnd, U32(1))), Add32(rr.rcvNxt, rr.rcvWnd)}}
    \cup {Segment({flagRst, flagAck}, q, sr.sndUna, U32(0), <<>>, 0) :
        q \in {rr.rcvNxt}}

\* The segments that can arrive before the main loop runs, for handshake
\* object hh: the SYN|ACK that completes an active handshake, the first
\* byte of data of the peer, and a reset that refuses the connection.
EarlySegs(hh) ==
    {Segment({flagSyn, flagAck}, q, Add32(hh.iss, U32(1)), w, <<>>, 0) :
        q \in PeerIss, w \in PeerWindows}
    \cup {Segment({flagAck}, Add32(q, U32(1)), Add32(hh.iss, U32(1)), w, <<>>, 1) :
        q \in PeerIss, w \in PeerWindows}
    \cup {Segment({flagRst, flagAck}, U32(0), Add32(hh.iss, U32(1)), U32(0), <<>>, 0)}

\* The driver has not set up the sleeper of the main loop.
BeforeMainLoop == dpc \in {"handshake", "completed", "connected"}

\* A segment arrives before the main loop runs: during the handshake, or
\* between the return of execute and the AddWaker calls of the main loop.
DeliverEarly(s) ==
    /\ BeforeMainLoop
    /\ Len(segmentQueue) < MaxPending
    /\ Event
    /\ delivered' = delivered + 1
    /\ segmentQueue' = Append(segmentQueue, s)
    /\ ready' = AssertWaker(ready, wakerForNewSegment)
    /\ UNCHANGED <<notifyFlags, now, out, dpc, e_state, hardError, snd, rcv, notified, exitLog>>
    /\ UNCHANGED <<hsVars, drvRest>>

\* The number of segments in the segment queue when the main loop begins,
\* for a peer that has kept sending: more than handleSegments takes at once.
Backlog == 101

\* The number of segments of that peer that arrive later.
MaxTraffic == 1

\* The queue of n segments s.
RECURSIVE Repeated(_, _)
Repeated(s, n) == IF n = 0 THEN <<>> ELSE <<s>> \o Repeated(s, n - 1)

\* The segment of a peer that keeps sending: a repeated acknowledgement.
TrafficSegs(sr, rr) ==
    {Segment({flagAck}, rr.rcvNxt, sr.sndNxtList, U32(4096), <<>>, 0)}

\* A segment of the peer that keeps sending arrives.
DeliverTraffic(s) ==
    /\ InMainLoop
    /\ Len(segmentQueue) < MaxPending
    /\ delivered < MaxTraffic
    /\ delivered' = delivered + 1
    /\ segmentQueue' = Append(segmentQueue, s)
    /\ ready' = AssertWaker(ready, idxNewSegmentWaker)
    /\ UNCHANGED <<notifyFlags, now, out, dpc, e_state, hardError, snd, rcv, notified, exitLog>>
    /\ UNCHANGED <<hsVars, drvRest, events>>

\* A segment for the established endpoint arrives.
DeliverEstablished(s) ==
    /\ InMainLoop
    /\ Len(segmentQueue) < MaxPending
    /\ Event
    /\ delivered' = delivered + 1
    /\ segmentQueue' = Append(segmentQueue, s)
    /\ ready' = AssertWaker(ready, idxNewSegmentWaker)
    /\ UNCHANGED <<notifyFlags, now, out, dpc, e_state, hardError, snd, rcv, notified, exitLog>>
    /\ UNCHANGED <<hsVars, drvRest>>

\* Another goroutine notifies the main loop.
NotifyEstablished(n) ==
    /\ InMainLoop
    /\ n \notin notifyFlags
    /\ Event
    /\ notifyFlags' = notifyFlags \cup {n}
    /\ ready' = AssertWaker(ready, idxNotificationWaker)
    /\ UNCHANGED <<segmentQueue, now, out, dpc, e_state, hardError, snd, rcv, notified, exitLog,
                   delivered>>
    /\ UNCHANGED <<hsVars, drvRest>>

\* The application writes one byte: it is put in the send queue and sndWaker
\* is asserted.
Write ==
    /\ InMainLoop
    /\ Event
    /\ sndBufInQueue' = sndBufInQueue + 1
    /\ ready' = AssertWaker(ready, idxSndWaker)
    /\ UNCHANGED <<segmentQueue, notifyFlags, now, out, dpc, e_state, hardError, snd,
                   rcv, notified, exitLog, delivered>>
    /\ UNCHANGED <<hsVars, closeTimer, closeDeadline, batch, handled, armCount, closeSeen>>
    /\ UNCHANGED workMu

\* The application shuts the sending side down, for the first time or
\* again: sndCloseWaker is asserted.
Shutdown ==
    /\ InMainLoop
    /\ ~InSeq(ready, idxSndCloseWaker)
    /\ Event
    /\ ready' = AssertWaker(ready, idxSndCloseWaker)
    /\ UNCHANGED <<segmentQueue, notifyFlags, now, out, dpc, e_state, hardError, snd,
                   rcv, notified, exitLog, delivered>>
    /\ UNCHANGED <<hsVars, drvRest>>

\* closeTimer expires: its function asserts closeWaker.
CloseTimerFire ==
    /\ closeTimer = "armed"
    /\ closeTimer' = "fired"
    /\ now' = closeDeadline
    /\ ready' = AssertWaker(ready, idxCloseWaker)
    /\ UNCHANGED <<segmentQueue, notifyFlags, out, dpc, e_state, hardError, snd, rcv,
                   notified, exitLog, delivered>>
    /\ UNCHANGED <<hsVars, events, closeDeadline, sndBufInQueue, batch, handled, armCount,
                   closeSeen>>
    /\ UNCHANGED workMu

\* The sender's retransmit timer expires: its function asserts resendWaker.
ResendTimerFire ==
    /\ InMainLoop
    /\ snd[1].sndUna # snd[1].sndNxtList
    /\ ~InSeq(ready, idxResendWaker)
    /\ Event
    /\ ready' = AssertWaker(ready, idxResendWaker)
    /\ UNCHANGED <<segmentQueue, notifyFlags, now, out, dpc, e_state, hardError, snd,
                   rcv, notified, exitLog, delivered>>
    /\ UNCHANGED <<hsVars, drvRest>>

\* The endpoint when protocolMainLoop begins.
TcpInit ==
    /\ h = ZeroHandshake
    /\ segmentQueue = <<>>
    /\ notifyFlags = {}
    /\ ready = <<>>
    /\ timeOut = 0
    /\ armed = FALSE
    /\ deadline = 0
    /\ now = 0
    /\ out = <<>>
    /\ synLog = <<>>
    /\ quiet = TRUE
    /\ hsErr = NoError
    /\ dpc = "init"
    /\ e_state = stateConnecting
    /\ lastError = NoError
    /\ hardError = NoError
    /\ snd = <<>>
    /\ rcv = <<>>
    /\ notified = <<>>
    /\ delivered = 0
    /\ exitLog = <<>>

\* protocolMainLoop has not reached its main loop.
DrvInit ==
    /\ closeTimer = "nil"
    /\ closeDeadline = 0
    /\ sndBufInQueue = 0
    /\ batch = 0
    /\ handled = <<>>
    /\ armCount = 0
    /\ closeSeen = 0
    /\ events = 0
    /\ workMu = "driver"

\* No hand-off is being followed.
HoIdle ==
    /\ ho_w = <<>>
    /\ ho_sl = <<>>
    /\ ho_pc = <<>>
    /\ ho_loc = <<>>
    /\ ho_ep = <<>>

\* No function is being applied.
FnInit ==
    /\ HoIdle
    /\ job = "none"
    /\ p_opts = <<>> /\ p_i = 0 /\ p_mss = 0 /\ p_ws = 0 /\ p_ret = "ok"
    /\ p_reads = {}
    /\ f_wnd = <<0, 0>> /\ f_s = 0 /\ f_ret = "done"
    /\ c_h = <<>> /\ c_seg = <<>> /\ c_res = <<>>

(* The functions of connect.go applied to drawn inputs *)

\* opts[j] of the code.  A read at or beyond len(opts) panics in Go; 0
\* stands for the value that is never delivered.
Byte(opts, j) == IF j < Len(opts) THEN opts[j + 1] ELSE 0

\* The body of the loop of parseSynOptions at index i: the values of i, mss
\* and ws after it, the indices of opts it read, and what follows: "run"
\* for another iteration, "ok" for the return after the loop, "bad" for
\* return 0, -1, false and "panic" for a read outside opts.
parseSynOptionsBody(opts, i, mss, ws) ==
    LET limit == Len(opts)
        after(ret, j, m, w, rd) ==
            [i |-> j, mss |-> m, ws |-> w, reads |-> rd,
             ret |-> IF \E x \in rd : x >= limit THEN "panic" ELSE ret]
        bad(rd) == after("bad", i, 0, -1, rd)
        next(j, m, w, rd) == after(IF j < limit THEN "run" ELSE "ok", j, m, w, rd)
        kind == Byte(opts, i)
    IN
    IF kind = TCPOptionEOL THEN next(limit, mss, ws, {i})
    ELSE IF kind = TCPOptionNOP THEN next(i + 1, mss, ws, {i})
    ELSE IF kind = TCPOptionMSS THEN
        IF i + 4 > limit THEN bad({i})
        ELSE IF Byte(opts, i + 1) # 4 THEN bad({i, i + 1})
        ELSE LET m == (Byte(opts, i + 2) * 256 + Byte(opts, i + 3)) % 65536
             IN IF m = 0 THEN bad({i, i + 1, i + 2, i + 3})
                ELSE next(i + 4, m, ws, {i, i + 1, i + 2, i + 3})
    ELSE IF kind = TCPOptionWS THEN
        IF i + 3 > limit THEN bad({i})
        ELSE IF Byte(opts, i + 1) # 3 THEN bad({i, i + 1})
        ELSE next(i + 3, mss,
                  IF Byte(opts, i + 2) > maxWndScale THEN maxWndScale
                  ELSE Byte(opts, i + 2),
                  {i, i + 1, i + 2})
    ELSE
        IF i + 2 > limit THEN bad({i})
        ELSE LET l == Byte(opts, i + 1)
             IN IF i < 2 \/ i + l > limit THEN bad({i, i + 1})
                ELSE next(i + l, mss, ws, {i, i + 1})

\* parseSynOptions up to the first test of its loop.
ParseCall ==
    /\ job = "parse"
    /\ p_ret = "call"
    /\ p_mss' = 536
    /\ p_ws' = -1
    /\ p_i' = 0
    /\ p_ret' = IF 0 < Len(p_opts) THEN "run" ELSE "ok"
    /\ UNCHANGED <<job, p_opts, p_reads, f_wnd, f_s, f_ret, c_h, c_seg, c_res>>
    /\ UNCHANGED <<wakeVars, tcpVars, drvVars, hoVars>>

\* One iteration of the loop of parseSynOptions.
ParseStep ==
    /\ job = "parse"
    /\ p_ret = "run"
    /\ LET r == parseSynOptionsBody(p_opts, p_i, p_mss, p_ws)
       IN /\ p_i' = r.i
          /\ p_mss' = r.mss
          /\ p_ws' = r.ws
          /\ p_ret' = r.ret
          /\ p_reads' = p_reads \cup r.reads
    /\ UNCHANGED <<job, p_opts, f_wnd, f_s, f_ret, c_h, c_seg, c_res>>
    /\ UNCHANGED <<wakeVars, tcpVars, drvVars, hoVars>>

\* A call of findWndScale(f_wnd).
CallFindWndScale ==
    /\ job = "scale"
    /\ f_ret = "call"
    /\ f_s' = findWndScale(f_wnd)
    /\ f_ret' = "done"
    /\ UNCHANGED <<job, p_opts, p_i, p_mss, p_ws, p_ret, p_reads, f_wnd,
                   c_h, c_seg, c_res>>
    /\ UNCHANGED <<wakeVars, tcpVars, drvVars, hoVars>>

\* A call of c_h.synRcvdState(c_seg) during which rand.Read, if called,
\* delivers rnd.
CallSynRcvdState(rnd) ==
    /\ job = "synRcvd"
    /\ c_res = <<>>
    /\ c_res' = <<[res |-> synRcvdState(c_h, c_seg, rnd), rnd |-> rnd]>>
    /\ UNCHANGED <<job, p_opts, p_i, p_mss, p_ws, p_ret, p_reads, f_wnd, f_s,
                   f_ret, c_h, c_seg>>
    /\ UNCHANGED <<wakeVars, tcpVars, drvVars, hoVars>>

\* The number of segments a handshake of the harness is handed.
MaxSteps == 3

\* The windows of the segments handed to a handshake of the harness.
StepWindows == {U32(4096), U32(512)}

\* The handshakes the harness begins with: an active one after newHandshake,
\* a passive one after resetToSynRcvd, with the sequence number of the SYN
\* it answers.
StartingHandshakes ==
    {[h |-> newHandshake(w, i).h, syn |-> <<>>] : w \in RcvWndValues, i \in IssValues}
    \cup {[h |-> resetToSynRcvd(newHandshake(w, i).h, i, p, 1460, ws), syn |-> <<p>>] :
        w \in RcvWndValues, i \in IssValues, p \in PeerIss, ws \in {-1, 2}}

\* The segments handed to handshake hh.
StepSegs(hh) == {[s EXCEPT !.window = w] : s \in Segs(hh), w \in StepWindows}

\* The sequence number of the peer's SYN that the handshake has accepted,
\* <<>> if none, after a step from handshake b to handshake a on segment s.
AcceptedSyn(prev, b, a, s) ==
    IF b.state = handshakeSynSent /\ a.state # handshakeSynSent
    THEN <<s.sequenceNumber>>
    ELSE IF a.state = handshakeSynSent THEN <<>>
    ELSE prev

\* The body of the loop of processSegments for one segment, dequeued by a
\* handshake that has neither completed nor failed.
ProcessSegment(rnd) ==
    /\ job = "process"
    /\ c_h.state # handshakeCompleted
    /\ c_res[1].res.err = NoError /\ ~c_res[1].res.hang
    /\ c_res[1].n < MaxSteps
    /\ \E s \in StepSegs(c_h) :
          LET r == ProcessOne(c_h, s, rnd)
          IN /\ c_seg' = s
             /\ c_h' = r.h
             /\ c_res' = <<[res |-> r, rnd |-> rnd, before |-> c_h,
                            n |-> c_res[1].n + 1,
                            syn |-> AcceptedSyn(c_res[1].syn, c_h, r.h, s),
                            ends |-> <<>>]>>
    /\ UNCHANGED <<job, p_opts, p_i, p_mss, p_ws, p_ret, p_reads, f_wnd, f_s, f_ret>>
    /\ UNCHANGED <<wakeVars, tcpVars, drvVars, hoVars>>

\* protocolMainLoop transfers the state of the completed handshake.
Transfer ==
    /\ job = "process"
    /\ c_h.state = handshakeCompleted
    /\ c_res[1].ends = <<>>
    /\ c_res' = <<[c_res[1] EXCEPT !.ends = <<transfer(c_h)>>]>>
    /\ UNCHANGED <<job, p_opts, p_i, p_mss, p_ws, p_ret, p_reads, f_wnd, f_s, f_ret,
                   c_h, c_seg>>
    /\ UNCHANGED <<wakeVars, tcpVars, drvVars, hoVars>>

\* The inputs.  Option strings: every string of at most MaxOptLen bytes of
\* OptBytes, and what sendSynTCP builds for the routes of MtuValues and the
\* scales 0..maxWndScale.
MaxOptLen == 5

OptBytes == {0, 1, 2, 3, 4, 5, 15, 255}

MssValues == {1, 255, 256, 257, 536, 1460, 32768, 65280, 65534, 65535}

MtuValues == {x + TCPMinimumSize : x \in MssValues}

OptionStrings ==
    UNION {[1..k -> OptBytes] : k \in 0..MaxOptLen}
    \cup {synOptions(mtu, w) : mtu \in MtuValues, w \in 0..maxWndScale}

\* 0xffff << k as an unbounded number, for 0 <= k <= 16: 2^(16+k) - 2^k.
Limit(k) == <<Pow2(k) - 1, (Half - Pow2(k)) % Half>>

\* Windows: the extremes and the values around every 0xffff << k.
WndValues ==
    {U32(0), U32(1), U32(65535), U32(65536), <<32767, 65535>>, <<65535, 65535>>}
    \cup {Limit(k) : k \in 0..16}
    \cup {Add32(Limit(k), U32(1)) : k \in 0..16}
    \cup {Sub32(Limit(k), U32(1)) : k \in 0..16}

\* Handshakes in SynRcvd: an active one has got there from SynSent on a
\* SYN of the peer, a passive one by resetToSynRcvd.
SynRcvdHandshakes ==
    {synSentState(newHandshake(w, i).h,
                  Segment({flagSyn}, p, U32(0), U32(1000), o, 0)).h :
        w \in RcvWndValues, i \in IssValues, p \in PeerIss,
        o \in {<<>>, <<2, 4, 5, 180, 3, 3, 2, 1>>}}
    \cup {resetToSynRcvd(newHandshake(w, i).h, i, p, 1460, ws) :
        w \in RcvWndValues, i \in IssValues, p \in PeerIss, ws \in {-1, 2}}

\* The segments handed to a handshake in SynRcvd.
SynRcvdSegs(hh) ==
    {Segment(f, q, a, U32(1000), <<>>, d) :
        f \in {{flagSyn}, {flagSyn, flagAck}, {flagAck}, {flagRst}, {flagSyn, flagFin}},
        q \in {Sub32(hh.ackNum, U32(1)), hh.ackNum, Add32(hh.ackNum, U32(70000))},
        a \in {hh.iss, Add32(hh.iss, U32(1))},
        d \in {0, 1}}

(* The initial states and the specifications *)

\* Fresh objects: zero-valued wakers and sleeper, every thread between calls.
WakeInit ==
    /\ w_s = [w \in Wakers |-> Nil]
    /\ w_next = [w \in Wakers |-> Nil]
    /\ w_id = [w \in Wakers |-> 0]
    /\ sharedList = Nil
    /\ localList = Nil
    /\ waitingG = 0
    /\ pc = [t \in Threads |-> "idle"]
    /\ tw = [t \in Threads |-> 0]
    /\ tv = [t \in Threads |-> 0]
    /\ block = FALSE
    /\ lastRet = [op |-> "none", val |-> 0]
    /\ readyErr = FALSE
    /\ arrival = <<>>
    /\ lateCall = [t \in Threads |-> FALSE]

\* A step of a producer that goes on with a call in progress.
Continue(t) ==
    \/ AssertSwap(t) /\ UNCHANGED <<tcpVars, drvVars, fnVars>>
    \/ EnqueueLoad(t) /\ UNCHANGED <<tcpVars, drvVars, fnVars>>
    \/ EnqueueCAS(t) /\ UNCHANGED <<tcpVars, drvVars, fnVars>>
    \/ WakeLoad(t) /\ UNCHANGED <<tcpVars, drvVars, fnVars>>
    \/ WakeCAS(t) /\ UNCHANGED <<tcpVars, drvVars, fnVars>>
    \/ GoReady(t) /\ UNCHANGED <<tcpVars, drvVars, fnVars>>
    \/ ClearCAS(t) /\ UNCHANGED <<tcpVars, drvVars, fnVars>>

\* A step of the consumer that goes on with Fetch.
FetchContinue ==
    \/ FetchLoad /\ UNCHANGED <<tcpVars, drvVars, fnVars>>
    \/ FetchPrepare /\ UNCHANGED <<tcpVars, drvVars, fnVars>>
    \/ FetchRecheck /\ UNCHANGED <<tcpVars, drvVars, fnVars>>
    \/ FetchAbort /\ UNCHANGED <<tcpVars, drvVars, fnVars>>
    \/ FetchPark /\ UNCHANGED <<tcpVars, drvVars, fnVars>>
    \/ FetchDrain /\ UNCHANGED <<tcpVars, drvVars, fnVars>>
    \/ FetchPop /\ UNCHANGED <<tcpVars, drvVars, fnVars>>

\* A step of the consumer that goes on with AddWaker or Fetch.  In AddWaker
\* the consumer always loads zero from waitingG, which only its own Fetch
\* sets, and so never gets to the compare-and-swap of waitingG.
ConsumerContinue ==
    \/ AddWakerLoad /\ UNCHANGED <<tcpVars, drvVars, fnVars>>
    \/ AddWakerCAS /\ UNCHANGED <<tcpVars, drvVars, fnVars>>
    \/ EnqueueLoad(Consumer) /\ UNCHANGED <<tcpVars, drvVars, fnVars>>
    \/ EnqueueCAS(Consumer) /\ UNCHANGED <<tcpVars, drvVars, fnVars>>
    \/ WakeLoad(Consumer) /\ UNCHANGED <<tcpVars, drvVars, fnVars>>
    \/ FetchContinue

\* A producer begins a call.
ProducerCall ==
    \/ \E t \in Producers, w \in Wakers : AssertLoad(t, w) /\ UNCHANGED <<tcpVars, drvVars, fnVars>>
    \/ \E t \in Producers, w \in Wakers : ClearLoad(t, w) /\ UNCHANGED <<tcpVars, drvVars, fnVars>>

\* The consumer begins a call.
ConsumerCall ==
    \/ \E w \in Wakers : AddWakerCall(w) /\ UNCHANGED <<tcpVars, drvVars, fnVars>>
    \/ \E b \in BOOLEAN : FetchCall(b) /\ UNCHANGED <<tcpVars, drvVars, fnVars>>
    \/ Done /\ UNCHANGED <<tcpVars, drvVars, fnVars>>

WakeNext ==
    \/ ProducerCall
    \/ \E t \in Producers : Continue(t)
    \/ ConsumerCall
    \/ ConsumerContinue

vars == <<wakeVars, tcpVars, drvVars, fnVars>>

Init == WakeInit /\ TcpInit /\ DrvInit /\ FnInit

Next == WakeNext

\* The sleep package: two producers and the consumer, every operation.
Spec == Init /\ [][Next]_vars

\* The scheduler runs every goroutine that has a step to take: a call in
\* progress goes on.  Nothing obliges a thread to begin another call.
SpecLockFree ==
    /\ Init
    /\ [][Next]_vars
    /\ \A t \in Producers : WF_vars(Continue(t))
    /\ WF_vars(ConsumerContinue)

\* The state after the one-time set-up of the package documentation: every
\* waker was added to the sleeper and none is asserted.
InitBound ==
    /\ w_s = [w \in Wakers |-> TheSleeper]
    /\ w_next = [w \in Wakers |-> Nil]
    /\ w_id = [w \in Wakers |-> IdOf(w)]
    /\ sharedList = Nil
    /\ localList = Nil
    /\ waitingG = 0
    /\ pc = [t \in Threads |-> "idle"]
    /\ tw = [t \in Threads |-> 0]
    /\ tv = [t \in Threads |-> 0]
    /\ block = FALSE
    /\ lastRet = [op |-> "none", val |-> 0]
    /\ readyErr = FALSE
    /\ arrival = <<>>
    /\ lateCall = [t \in Threads |-> FALSE]

\* The consumer of the package documentation: Fetch(true), called repeatedly.
FetchLoop ==
    \/ FetchCall(TRUE) /\ UNCHANGED <<tcpVars, drvVars, fnVars>>
    \/ FetchContinue

NextNoLoss ==
    \/ ProducerCall
    \/ \E t \in Producers : Continue(t)
    \/ FetchLoop

\* One consumer looping on Fetch(true) and two producers, fairly scheduled.
InitNoLoss == InitBound /\ TcpInit /\ DrvInit /\ FnInit

SpecNoLoss ==
    /\ InitNoLoss
    /\ [][NextNoLoss]_vars
    /\ \A t \in Producers : WF_vars(Continue(t))
    /\ WF_vars(FetchLoop)

NextHandshake ==
    \/ \E rcvWnd \in RcvWndValues, rnd \in RandValues :
          StartHandshake(rcvWnd, rnd) /\ UNCHANGED <<wakeVars, drvVars, fnVars>>
    \/ TimerFire /\ UNCHANGED <<wakeVars, drvVars, fnVars>>
    \/ HandleResend /\ UNCHANGED <<wakeVars, drvVars, fnVars>>
    \/ HandleNotification /\ UNCHANGED <<wakeVars, drvVars, fnVars>>
    \/ \E rnds \in [1..Len(segmentQueue) -> RandValues] :
          HandleNewSegment(rnds) /\ UNCHANGED <<wakeVars, drvVars, fnVars>>
    \/ PublishConnected /\ UNCHANGED <<wakeVars, drvVars, fnVars>>
    \/ FailHandshake /\ UNCHANGED <<wakeVars, drvVars, fnVars>>
    \/ \E s \in Segs(h) : Deliver(s) /\ UNCHANGED <<wakeVars, drvVars, fnVars>>
    \/ \E n \in {notifyClose, notifyNonZeroReceiveWindow} :
          Notify(n) /\ UNCHANGED <<wakeVars, drvVars, fnVars>>

\* The driver of one endpoint from the start of protocolMainLoop to the end
\* of the handshake, with its timer, the network and the other goroutines.
SpecHandshake == Init /\ [][NextHandshake]_vars

\* Handshake objects of an active open: after newHandshake, and after a
\* SYN|ACK completed the handshake.
ActiveHandshakes == {newHandshake(w, <<65535, 65535>>).h : w \in RcvWndValues}

CompletedHandshakes ==
    {ProcessOne(hh, Segment({flagSyn, flagAck}, q, Add32(hh.iss, U32(1)), w, o, 0), <<>>).h :
        hh \in ActiveHandshakes, q \in PeerIss, w \in PeerWindows,
        o \in {<<>>, <<2, 4, 5, 180, 3, 3, 2, 1>>}}

\* protocolMainLoop when execute has returned, with nil or with an error,
\* or is at its first Fetch, the first SYN sent and the timer running; a
\* Close notification may be waiting to be fetched.
InitDriver ==
    /\ WakeInit /\ DrvInit /\ FnInit
    /\ \/ dpc = "completed" /\ h \in CompletedHandshakes /\ hsErr = NoError
       \/ dpc = "failed" /\ h \in ActiveHandshakes /\ hsErr \in HandshakeErrors
       \/ dpc = "handshake" /\ h \in ActiveHandshakes /\ hsErr = NoError
    /\ notifyFlags \in {{}, {notifyClose}}
    /\ ready = IF notifyFlags = {} THEN <<>> ELSE <<wakerForNotification>>
    /\ segmentQueue = <<>>
    /\ timeOut = 1
    /\ armed = (dpc = "handshake")
    /\ deadline = IF dpc = "handshake" THEN 1 ELSE 0
    /\ now = 0
    /\ out = <<>>
    /\ synLog = <<>>
    /\ quiet = FALSE
    /\ e_state = stateConnecting
    /\ lastError = NoError
    /\ hardError = NoError
    /\ snd = <<>>
    /\ rcv = <<>>
    /\ notified = <<>>
    /\ delivered = 0
    /\ exitLog = <<>>

NextDriver ==
    \/ HandleNotification /\ UNCHANGED <<wakeVars, drvVars, fnVars>>
    \/ \E rnds \in [1..Len(segmentQueue) -> RandValues] :
          HandleNewSegment(rnds) /\ UNCHANGED <<wakeVars, drvVars, fnVars>>
    \/ \E s \in (IF BeforeMainLoop THEN EarlySegs(h) ELSE {}) :
          DeliverEarly(s) /\ UNCHANGED <<wakeVars, fnVars>>
    \/ PublishConnected /\ UNCHANGED <<wakeVars, drvVars, fnVars>>
    \/ FailHandshake /\ UNCHANGED <<wakeVars, drvVars, fnVars>>
    \/ SetUpSleeper /\ UNCHANGED <<wakeVars, fnVars>>
    \/ ExitLoop /\ UNCHANGED <<wakeVars, fnVars>>
    \/ UnlockForFetch /\ UNCHANGED <<wakeVars, fnVars>>
    \/ ExternalLock /\ UNCHANGED <<wakeVars, fnVars>>
    \/ ExternalUnlock /\ UNCHANGED <<wakeVars, fnVars>>
    \/ HandleWrite /\ UNCHANGED <<wakeVars, fnVars>>
    \/ HandleClose /\ UNCHANGED <<wakeVars, fnVars>>
    \/ BeginSegments /\ UNCHANGED <<wakeVars, fnVars>>
    \/ SegmentStep /\ UNCHANGED <<wakeVars, fnVars>>
    \/ EndSegments /\ UNCHANGED <<wakeVars, fnVars>>
    \/ HandleCloseWaker /\ UNCHANGED <<wakeVars, fnVars>>
    \/ \E expired \in BOOLEAN : HandleResendWaker(expired) /\ UNCHANGED <<wakeVars, fnVars>>
    \/ HandleNotificationWaker /\ UNCHANGED <<wakeVars, fnVars>>
    \/ \E s \in (IF InMainLoop THEN EstSegs(snd[1], rcv[1]) ELSE {}) :
          DeliverEstablished(s) /\ UNCHANGED <<wakeVars, fnVars>>
    \/ \E n \in {notifyClose, notifyNonZeroReceiveWindow} :
          NotifyEstablished(n) /\ UNCHANGED <<wakeVars, fnVars>>
    \/ Write /\ UNCHANGED <<wakeVars, fnVars>>
    \/ Shutdown /\ UNCHANGED <<wakeVars, fnVars>>
    \/ CloseTimerFire /\ UNCHANGED <<wakeVars, fnVars>>
    \/ ResendTimerFire /\ UNCHANGED <<wakeVars, fnVars>>

\* The driver of one endpoint from its first Fetch, or from the return of
\* execute, to the return of protocolMainLoop, with the timers of the main
\* loop, the network and the application; the handshake's own timer is
\* left to SpecHandshake.
SpecDriver == InitDriver /\ [][NextDriver]_vars

\* protocolMainLoop at a test of its main loop, after an active handshake,
\* with a backlog of segments in the segment queue; a Close notification
\* may have been fetched before, so that closeTimer is running.
InitTraffic ==
    /\ WakeInit /\ FnInit
    /\ closeTimer \in {"nil", "armed"}
    /\ closeDeadline = IF closeTimer = "armed" THEN 3 ELSE 0
    /\ armCount = IF closeTimer = "armed" THEN 1 ELSE 0
    /\ closeSeen = armCount
    /\ sndBufInQueue = 0
    /\ batch = 0
    /\ handled = <<>>
    /\ events = 0
    /\ workMu = "driver"
    /\ dpc = "loop"
    /\ h \in {hh \in CompletedHandshakes : hh.sndWndScale = -1 /\ hh.rcvWnd = U32(65535)}
    /\ hsErr = NoError
    /\ notifyFlags = {}
    /\ ready = <<idxNewSegmentWaker>>
    /\ timeOut = 1
    /\ armed = FALSE
    /\ deadline = 0
    /\ now = 0
    /\ out = <<>>
    /\ synLog = <<>>
    /\ quiet = FALSE
    /\ e_state = stateConnected
    /\ lastError = NoError
    /\ hardError = NoError
    /\ snd = <<transfer(h).snd>>
    /\ rcv = <<transfer(h).rcv>>
    /\ segmentQueue \in {Repeated(s, Backlog) : s \in TrafficSegs(snd[1], rcv[1])}
    /\ notified = <<{EventOut}>>
    /\ delivered = 0
    /\ exitLog = <<>>

\* The peer sends no FIN, so the test of the main loop never fails.
NextTraffic ==
    \/ UnlockForFetch /\ UNCHANGED <<wakeVars, fnVars>>
    \/ HandleWrite /\ UNCHANGED <<wakeVars, fnVars>>
    \/ HandleClose /\ UNCHANGED <<wakeVars, fnVars>>
    \/ BeginSegments /\ UNCHANGED <<wakeVars, fnVars>>
    \/ SegmentStep /\ UNCHANGED <<wakeVars, fnVars>>
    \/ EndSegments /\ UNCHANGED <<wakeVars, fnVars>>
    \/ HandleCloseWaker /\ UNCHANGED <<wakeVars, fnVars>>
    \/ \E expired \in BOOLEAN : HandleResendWaker(expired) /\ UNCHANGED <<wakeVars, fnVars>>
    \/ HandleNotificationWaker /\ UNCHANGED <<wakeVars, fnVars>>
    \/ \E s \in (IF InMainLoop THEN TrafficSegs(snd[1], rcv[1]) ELSE {}) :
          DeliverTraffic(s) /\ UNCHANGED <<wakeVars, fnVars>>
    \/ NotifyEstablished(notifyClose) /\ UNCHANGED <<wakeVars, fnVars>>
    \/ Write /\ UNCHANGED <<wakeVars, fnVars>>
    \/ Shutdown /\ UNCHANGED <<wakeVars, fnVars>>
    \/ CloseTimerFire /\ UNCHANGED <<wakeVars, fnVars>>
    \/ ResendTimerFire /\ UNCHANGED <<wakeVars, fnVars>>

\* The main loop of one endpoint whose peer keeps sending segments, with
\* the timers and the application.
\* The driver is scheduled whenever it can take a step; what arrives from
\* outside is bounded.
SpecTraffic == InitTraffic /\ [][NextTraffic]_vars /\ WF_vars(NextTraffic)

\* A function of connect.go is applied to an input drawn from the sets above.
InitFunctions ==
    /\ WakeInit /\ TcpInit /\ DrvInit /\ HoIdle
    /\ job \in {"parse", "scale", "synRcvd", "process"}
    /\ p_opts \in (IF job = "parse" THEN OptionStrings ELSE {<<>>})
    /\ p_i = 0 /\ p_mss = 0 /\ p_ws = 0 /\ p_reads = {}
    /\ p_ret = IF job = "parse" THEN "call" ELSE "ok"
    /\ f_wnd \in (IF job = "scale" THEN WndValues ELSE {<<0, 0>>})
    /\ f_s = 0
    /\ f_ret = IF job = "scale" THEN "call" ELSE "done"
    /\ c_h \in (IF job = "synRcvd" THEN SynRcvdHandshakes
                ELSE IF job = "process" THEN {x.h : x \in StartingHandshakes}
                ELSE {<<>>})
    /\ c_seg \in (IF job = "synRcvd" THEN SynRcvdSegs(c_h) ELSE {<<>>})
    /\ c_res \in (IF job = "process"
                  THEN {<<[res |-> Result(x.h, <<>>, NoError), rnd |-> <<>>,
                           before |-> x.h, n |-> 0, syn |-> x.syn, ends |-> <<>>]>> :
                           x \in {y \in StartingHandshakes : y.h = c_h}}
                  ELSE {<<>>})

NextFunctions ==
    \/ ParseCall
    \/ ParseStep
    \/ CallFindWndScale
    \/ \E rnd \in IssValues \cup {<<>>} : CallSynRcvdState(rnd)
    \/ \E rnd \in RandValues : ProcessSegment(rnd)
    \/ Transfer

SpecFunctions == InitFunctions /\ [][NextFunctions]_vars

\* The parser alone, on the strings of at most MaxLoopLen bytes of LoopBytes.
\* The loop of parseSynOptions runs on its own: an iteration that can be
\* taken is taken.
MaxLoopLen == 4

LoopBytes == {0, 1, 2, 5}

InitParser ==
    /\ WakeInit /\ TcpInit /\ DrvInit /\ HoIdle
    /\ job = "parse"
    /\ p_opts \in UNION {[1..k -> LoopBytes] : k \in 0..MaxLoopLen}
    /\ p_i = 0 /\ p_mss = 0 /\ p_ws = 0 /\ p_reads = {}
    /\ p_ret = "call"
    /\ f_wnd = <<0, 0>> /\ f_s = 0 /\ f_ret = "done"
    /\ c_h = <<>> /\ c_seg = <<>> /\ c_res = <<>>

NextParser ==
    \/ ParseCall
    \/ ParseStep

SpecParser == InitParser /\ [][NextParser]_vars /\ WF_vars(NextParser)

(***************************************************************************)
(* Part III: the hand-off from handshake.execute to protocolMainLoop, with *)
(* the sleep package step by step                                          *)
(***************************************************************************)

\* The wakers of the endpoint that both sleepers are given.
newSegmentWaker == 1
notificationWaker == 2
HoWakers == {newSegmentWaker, notificationWaker}

\* The sleeper s of handshake.execute and the sleeper s of protocolMainLoop.
ExecuteSleeper == 1
MainLoopSleeper == 2
HoSleepers == {ExecuteSleeper, MainLoopSleeper}

\* The protocol goroutine, the goroutine that delivers segments and the
\* goroutine that notifies the protocol goroutine.
Driver == "driver"
Net == "net"
App == "app"
HoThreads == {Driver, Net, App}

\* The number of segments delivered and of notifications.
MaxHoSegs == 2
MaxHoNotes == 1

\* The n-th segment of the peer for handshake object hh: the SYN|ACK that
\* completes the active handshake, then one byte of data after another.
HoSeg(hh, n) ==
    LET irs == <<65535, 65534>>
    IN IF n = 0
       THEN Segment({flagSyn, flagAck}, irs, Add32(hh.iss, U32(1)), U32(4096), <<>>, 0)
       ELSE Segment({flagAck}, Add32(irs, U32(n)), Add32(hh.iss, U32(1)), U32(4096), <<>>, 1)

\* The locals of a goroutine that is in no call of the sleep package; v
\* holds what its last call returned.
NoCall(v) == [w |-> Nil, s |-> Nil, v |-> v, ret |-> "none"]

\* Goroutine t goes on to step l.
HoGoto(t, l) == ho_pc' = [ho_pc EXCEPT ![t] = l]

\* Goroutine t calls an operation of the sleep package on waker w and
\* sleeper s: it goes on to step l of it and, after it, to step ret.
HoCall(t, l, w, s, ret) ==
    /\ ho_pc' = [ho_pc EXCEPT ![t] = l]
    /\ ho_loc' = [ho_loc EXCEPT ![t] = [w |-> w, s |-> s, v |-> Nil, ret |-> ret]]

\* The call of goroutine t returns val.
HoReturn(t, val) ==
    /\ ho_pc' = [ho_pc EXCEPT ![t] = ho_loc[t].ret]
    /\ ho_loc' = [ho_loc EXCEPT ![t] = NoCall(val)]

(* Waker.Assert and Sleeper.enqueueAssertedWaker *)

\* Waker.Assert, the first load of w.s.
HoAssertLoad(t) ==
    /\ ho_pc[t] = "A_load"
    /\ IF ho_w[ho_loc[t].w].s = assertedSleeper
       THEN HoReturn(t, 0)
       ELSE HoGoto(t, "A_swap") /\ UNCHANGED ho_loc
    /\ UNCHANGED <<ho_w, ho_sl, ho_ep>>

\* Waker.Assert, the swap of w.s and the switch on the old value.
HoAssertSwap(t) ==
    /\ ho_pc[t] = "A_swap"
    /\ LET w == ho_loc[t].w
           old == ho_w[w].s
       IN /\ ho_w' = [ho_w EXCEPT ![w].s = assertedSleeper]
          /\ IF old \in {Nil, assertedSleeper}
             THEN HoReturn(t, 0)
             ELSE /\ HoGoto(t, "E_load")
                  /\ ho_loc' = [ho_loc EXCEPT ![t].s = old]
    /\ UNCHANGED <<ho_sl, ho_ep>>

\* enqueueAssertedWaker, the load of s.sharedList and the sentinel test.
HoEnqueueLoad(t) ==
    /\ ho_pc[t] = "E_load"
    /\ LET v == ho_sl[ho_loc[t].s].sharedList
       IN IF v = sentinelWaker
          THEN HoReturn(t, 0)
          ELSE /\ HoGoto(t, "E_store")
               /\ ho_loc' = [ho_loc EXCEPT ![t].v = v]
    /\ UNCHANGED <<ho_w, ho_sl, ho_ep>>

\* enqueueAssertedWaker, the store of v to w.next.
HoEnqueueStore(t) ==
    /\ ho_pc[t] = "E_store"
    /\ ho_w' = [ho_w EXCEPT ![ho_loc[t].w].next = ho_loc[t].v]
    /\ HoGoto(t, "E_cas")
    /\ UNCHANGED <<ho_sl, ho_loc, ho_ep>>

\* enqueueAssertedWaker, the compare-and-swap that pushes w.
HoEnqueueCAS(t) ==
    /\ ho_pc[t] = "E_cas"
    /\ LET s == ho_loc[t].s
       IN IF ho_sl[s].sharedList = ho_loc[t].v
          THEN /\ ho_sl' = [ho_sl EXCEPT ![s].sharedList = ho_loc[t].w]
               /\ HoGoto(t, "W_load")
          ELSE /\ UNCHANGED ho_sl
               /\ HoGoto(t, "E_load")
    /\ UNCHANGED <<ho_w, ho_loc, ho_ep>>

\* enqueueAssertedWaker, the load of s.waitingG.
HoWakeLoad(t) ==
    /\ ho_pc[t] = "W_load"
    /\ LET g == ho_sl[ho_loc[t].s].waitingG
       IN IF g = 0
          THEN HoReturn(t, 0)
          ELSE /\ HoGoto(t, "W_cas")
               /\ ho_loc' = [ho_loc EXCEPT ![t].v = g]
    /\ UNCHANGED <<ho_w, ho_sl, ho_ep>>

\* enqueueAssertedWaker, the compare-and-swap of s.waitingG from g to zero.
HoWakeCAS(t) ==
    /\ ho_pc[t] = "W_cas"
    /\ LET s == ho_loc[t].s
           g == ho_loc[t].v
       IN IF ho_sl[s].waitingG = g
          THEN /\ ho_sl' = [ho_sl EXCEPT ![s].waitingG = 0]
               /\ HoGoto(t, IF g # preparingG THEN "W_ready" ELSE "W_load")
          ELSE /\ UNCHANGED ho_sl
               /\ HoGoto(t, "W_load")
    /\ UNCHANGED <<ho_w, ho_loc, ho_ep>>

\* goready(g, 0): the parked protocol goroutine resumes after gopark, at
\* the test of the inner loop of Fetch.
HoGoReady(t) ==
    /\ ho_pc[t] = "W_ready"
    /\ ho_pc[Driver] = "parked"
    /\ ho_pc' = [ho_pc EXCEPT ![t] = "W_load", ![Driver] = "F_load"]
    /\ UNCHANGED <<ho_w, ho_sl, ho_loc, ho_ep>>

(* Sleeper.AddWaker *)

\* The protocol goroutine calls s.AddWaker(w, id), which stores w.id, and
\* goes on to step ret after it.
HoAddWaker(s, w, id, ret) ==
    /\ ho_w' = [ho_w EXCEPT ![w].id = id]
    /\ HoCall(Driver, "AW_load", w, s, ret)
    /\ UNCHANGED <<ho_sl, ho_ep>>

\* AddWaker, the load of w.s: an asserted waker is enqueued.
HoAddWakerLoad ==
    /\ ho_pc[Driver] = "AW_load"
    /\ LET p == ho_w[ho_loc[Driver].w].s
       IN IF p = assertedSleeper
          THEN HoGoto(Driver, "E_load") /\ UNCHANGED ho_loc
          ELSE /\ HoGoto(Driver, "AW_cas")
               /\ ho_loc' = [ho_loc EXCEPT ![Driver].v = p]
    /\ UNCHANGED <<ho_w, ho_sl, ho_ep>>

\* AddWaker, the compare-and-swap of w.s from p to s.
HoAddWakerCAS ==
    /\ ho_pc[Driver] = "AW_cas"
    /\ LET w == ho_loc[Driver].w
       IN IF ho_w[w].s = ho_loc[Driver].v
          THEN /\ ho_w' = [ho_w EXCEPT ![w].s = ho_loc[Driver].s]
               /\ HoReturn(Driver, 0)
          ELSE /\ UNCHANGED ho_w
               /\ HoGoto(Driver, "AW_load") /\ UNCHANGED ho_loc
    /\ UNCHANGED <<ho_sl, ho_ep>>

(* Sleeper.Fetch(true) and Sleeper.Done *)

\* The protocol goroutine calls s.Fetch(true) and goes on to step ret after it.
HoFetch(s, ret) == HoCall(Driver, "F_test", Nil, s, ret)

\* Fetch, the test of s.localList.
HoFetchTest ==
    /\ ho_pc[Driver] = "F_test"
    /\ HoGoto(Driver, IF ho_sl[ho_loc[Driver].s].localList = Nil THEN "F_load" ELSE "F_pop")
    /\ UNCHANGED <<ho_w, ho_sl, ho_loc, ho_ep>>

\* Fetch, the test of the inner loop: the load of s.sharedList.
HoFetchLoad ==
    /\ ho_pc[Driver] = "F_load"
    /\ HoGoto(Driver, IF ho_sl[ho_loc[Driver].s].sharedList # Nil THEN "F_swap" ELSE "F_prep")
    /\ UNCHANGED <<ho_w, ho_sl, ho_loc, ho_ep>>

\* Fetch, the store of preparingG to s.waitingG.
HoFetchPrepare ==
    /\ ho_pc[Driver] = "F_prep"
    /\ ho_sl' = [ho_sl EXCEPT ![ho_loc[Driver].s].waitingG = preparingG]
    /\ HoGoto(Driver, "F_recheck")
    /\ UNCHANGED <<ho_w, ho_loc, ho_ep>>

\* Fetch, the second load of s.sharedList.
HoFetchRecheck ==
    /\ ho_pc[Driver] = "F_recheck"
    /\ HoGoto(Driver, IF ho_sl[ho_loc[Driver].s].sharedList # Nil THEN "F_abort" ELSE "F_park")
    /\ UNCHANGED <<ho_w, ho_sl, ho_loc, ho_ep>>

\* Fetch, the store of zero to s.waitingG and the break.
HoFetchAbort ==
    /\ ho_pc[Driver] = "F_abort"
    /\ ho_sl' = [ho_sl EXCEPT ![ho_loc[Driver].s].waitingG = 0]
    /\ HoGoto(Driver, "F_swap")
    /\ UNCHANGED <<ho_w, ho_loc, ho_ep>>

\* Fetch, gopark with commitSleep: the goroutine parks if s.waitingG still
\* holds preparingG, which its handle replaces.
HoFetchPark ==
    /\ ho_pc[Driver] = "F_park"
    /\ LET s == ho_loc[Driver].s
       IN IF ho_sl[s].waitingG = preparingG
          THEN /\ ho_sl' = [ho_sl EXCEPT ![s].waitingG = ConsumerG]
               /\ HoGoto(Driver, "parked")
          ELSE /\ UNCHANGED ho_sl
               /\ HoGoto(Driver, "F_load")
    /\ UNCHANGED <<ho_w, ho_loc, ho_ep>>

\* Fetch, the swap of s.sharedList with nil.
HoFetchSwap ==
    /\ ho_pc[Driver] = "F_swap"
    /\ LET s == ho_loc[Driver].s
       IN /\ ho_loc' = [ho_loc EXCEPT ![Driver].v = ho_sl[s].sharedList]
          /\ ho_sl' = [ho_sl EXCEPT ![s].sharedList = Nil]
    /\ HoGoto(Driver, "F_rev")
    /\ UNCHANGED <<ho_w, ho_ep>>

\* Fetch, the loop that reverses the list: the test, cur := v and
\* v = v.next.
HoFetchReverse ==
    /\ ho_pc[Driver] = "F_rev"
    /\ LET v == ho_loc[Driver].v
       IN IF v = Nil
          THEN HoGoto(Driver, "F_pop") /\ UNCHANGED ho_loc
          ELSE /\ HoGoto(Driver, "F_link")
               /\ ho_loc' = [ho_loc EXCEPT ![Driver].w = v, ![Driver].v = ho_w[v].next]
    /\ UNCHANGED <<ho_w, ho_sl, ho_ep>>

\* Fetch, the rest of the body of that loop: cur.next = s.localList and
\* s.localList = cur.
HoFetchLink ==
    /\ ho_pc[Driver] = "F_link"
    /\ LET s == ho_loc[Driver].s
           cur == ho_loc[Driver].w
       IN /\ ho_w' = [ho_w EXCEPT ![cur].next = ho_sl[s].localList]
          /\ ho_sl' = [ho_sl EXCEPT ![s].localList = cur]
    /\ HoGoto(Driver, "F_rev")
    /\ UNCHANGED <<ho_loc, ho_ep>>

\* Fetch, w := s.localList and s.localList = w.next.
HoFetchPop ==
    /\ ho_pc[Driver] = "F_pop"
    /\ LET s == ho_loc[Driver].s
           w == ho_sl[s].localList
       IN IF w = Nil
          THEN HoGoto(Driver, "panic") /\ UNCHANGED <<ho_sl, ho_loc>>
          ELSE /\ ho_sl' = [ho_sl EXCEPT ![s].localList = ho_w[w].next]
               /\ ho_loc' = [ho_loc EXCEPT ![Driver].w = w]
               /\ HoGoto(Driver, "F_bind")
    /\ UNCHANGED <<ho_w, ho_ep>>

\* Fetch, the swap of w.s with s: w.id is returned if w was asserted, and
\* the outer loop goes on otherwise.
HoFetchBind ==
    /\ ho_pc[Driver] = "F_bind"
    /\ LET w == ho_loc[Driver].w
       IN /\ ho_w' = [ho_w EXCEPT ![w].s = ho_loc[Driver].s]
          /\ IF ho_w[w].s = assertedSleeper
             THEN HoReturn(Driver, ho_w[w].id)
             ELSE HoGoto(Driver, "F_test") /\ UNCHANGED ho_loc
    /\ UNCHANGED <<ho_sl, ho_ep>>

(* handshake.execute and handshake.processSegments *)

\* execute sets up its sleeper: AddWaker for notificationWaker, then for
\* newSegmentWaker.  Its own resendWaker, which no other sleeper is given
\* and whose timer does not expire here, is left out.
HoExecuteAddWakers ==
    \/ /\ ho_pc[Driver] = "x_add_ntf"
       /\ HoAddWaker(ExecuteSleeper, notificationWaker, wakerForNotification, "x_add_seg")
    \/ /\ ho_pc[Driver] = "x_add_seg"
       /\ HoAddWaker(ExecuteSleeper, newSegmentWaker, wakerForNewSegment, "x_loop")

\* execute, the test of its loop and the call of Fetch.
HoExecuteLoop ==
    /\ ho_pc[Driver] = "x_loop"
    /\ IF ho_ep.h.state = handshakeCompleted
       THEN HoGoto(Driver, "x_done") /\ UNCHANGED ho_loc
       ELSE HoFetch(ExecuteSleeper, "x_switch")
    /\ UNCHANGED <<ho_w, ho_sl, ho_ep>>

\* execute, the switch on the index Fetch returned: the notifications are
\* fetched (none of them is notifyClose), or processSegments is called.
HoExecuteSwitch ==
    /\ ho_pc[Driver] = "x_switch"
    /\ IF ho_loc[Driver].v = wakerForNotification
       THEN /\ ho_ep' = [ho_ep EXCEPT !.notifyFlags = {}]
            /\ HoGoto(Driver, "x_loop")
       ELSE /\ UNCHANGED ho_ep
            /\ HoGoto(Driver, "p_deq")
    /\ UNCHANGED <<ho_w, ho_sl, ho_loc>>

\* processSegments, one iteration of its loop: fewer than
\* maxSegmentsPerWake segments arrive, so that the loop ends by the return
\* on an empty queue, by an error or by the break on handshakeCompleted.
HoProcessSegment ==
    /\ ho_pc[Driver] = "p_deq"
    /\ IF ho_ep.segmentQueue = <<>>
       THEN HoGoto(Driver, "x_loop") /\ UNCHANGED ho_ep
       ELSE LET r == ProcessOne(ho_ep.h, Head(ho_ep.segmentQueue), <<>>)
            IN /\ ho_ep' = [ho_ep EXCEPT !.h = r.h,
                                         !.segmentQueue = Tail(@),
                                         !.taken = Append(@, [by |-> "handshake",
                                                              state |-> ho_ep.h.state])]
               /\ HoGoto(Driver, IF r.err # NoError THEN "x_failed"
                                 ELSE IF r.h.state = handshakeCompleted THEN "p_check"
                                 ELSE "p_deq")
    /\ UNCHANGED <<ho_w, ho_sl, ho_loc>>

\* processSegments after its loop: newSegmentWaker.Assert() if the queue is
\* not empty.
HoProcessCheck ==
    /\ ho_pc[Driver] = "p_check"
    /\ IF ho_ep.segmentQueue # <<>>
       THEN HoCall(Driver, "A_load", newSegmentWaker, Nil, "x_loop")
       ELSE HoGoto(Driver, "x_loop") /\ UNCHANGED ho_loc
    /\ UNCHANGED <<ho_w, ho_sl, ho_ep>>

\* execute returns nil: the deferred s.Done() stores sentinelWaker to
\* s.sharedList and nil to s.localList.  The history records whether
\* segments remain in the queue.
HoExecuteDone ==
    /\ ho_pc[Driver] = "x_done"
    /\ ho_sl' = [ho_sl EXCEPT ![ExecuteSleeper].sharedList = sentinelWaker,
                              ![ExecuteSleeper].localList = Nil]
    /\ ho_ep' = [ho_ep EXCEPT !.residual = @ \/ ho_ep.segmentQueue # <<>>]
    /\ HoGoto(Driver, "m_add_seg")
    /\ UNCHANGED <<ho_w, ho_loc>>

(* endpoint.protocolMainLoop and endpoint.handleSegments *)

\* protocolMainLoop sets up its sleeper: of the wakers in funcs,
\* newSegmentWaker comes before notificationWaker; the four others, which
\* nothing asserts here, are left out.
HoMainAddWakers ==
    \/ /\ ho_pc[Driver] = "m_add_seg"
       /\ HoAddWaker(MainLoopSleeper, newSegmentWaker, idxNewSegmentWaker, "m_add_ntf")
    \/ /\ ho_pc[Driver] = "m_add_ntf"
       /\ HoAddWaker(MainLoopSleeper, notificationWaker, idxNotificationWaker, "m_loop")

\* The main loop: its test holds, for the peer sends no FIN; Fetch is called.
HoMainLoop ==
    /\ ho_pc[Driver] = "m_loop"
    /\ HoFetch(MainLoopSleeper, "m_switch")
    /\ UNCHANGED <<ho_w, ho_sl, ho_ep>>

\* The main loop, funcs[v].f(): the handler of notificationWaker fetches
\* the notifications; handleSegments begins.
HoMainSwitch ==
    /\ ho_pc[Driver] = "m_switch"
    /\ IF ho_loc[Driver].v = idxNotificationWaker
       THEN /\ ho_ep' = [ho_ep EXCEPT !.notifyFlags = {}]
            /\ HoGoto(Driver, "m_loop")
       ELSE /\ UNCHANGED ho_ep
            /\ HoGoto(Driver, "s_deq")
    /\ UNCHANGED <<ho_w, ho_sl, ho_loc>>

\* handleSegments, one iteration of its loop: fewer than
\* maxSegmentsPerWake segments arrive, so that the loop ends on an empty
\* queue.
HoHandleSegment ==
    /\ ho_pc[Driver] = "s_deq"
    /\ IF ho_ep.segmentQueue = <<>>
       THEN HoGoto(Driver, "m_loop") /\ UNCHANGED ho_ep
       ELSE /\ ho_ep' = [ho_ep EXCEPT !.segmentQueue = Tail(@),
                                      !.taken = Append(@, [by |-> "driver",
                                                           state |-> ho_ep.h.state])]
            /\ HoGoto(Driver, "s_deq")
    /\ UNCHANGED <<ho_w, ho_sl, ho_loc>>

(* The other goroutines *)

\* The protocol goroutine is between the completion of the handshake and
\* the AddWaker calls of the main loop.
HandedOver ==
    /\ ho_ep.h.state = handshakeCompleted
    /\ ho_pc[Driver] \in {"x_loop", "x_done", "m_add_seg"}

\* A segment arrives: it is put in the segment queue; newSegmentWaker.Assert()
\* follows.  The history records an arrival between the completion and the
\* AddWaker calls of the main loop.
HoDeliver ==
    /\ ho_pc[Net] = "idle"
    /\ ho_ep.sent < MaxHoSegs
    /\ ho_ep' = [ho_ep EXCEPT !.segmentQueue = Append(@, HoSeg(ho_ep.h, ho_ep.sent)),
                              !.sent = @ + 1,
                              !.residual = @ \/ HandedOver]
    /\ HoCall(Net, "A_load", newSegmentWaker, Nil, "idle")
    /\ UNCHANGED <<ho_w, ho_sl>>

\* Another goroutine notifies the protocol goroutine that the receive
\* window is no longer zero: the flag is set; notificationWaker.Assert()
\* follows.
HoNotify ==
    /\ ho_pc[App] = "idle"
    /\ ho_ep.noted < MaxHoNotes
    /\ ho_ep' = [ho_ep EXCEPT !.notifyFlags = @ \cup {notifyNonZeroReceiveWindow},
                              !.noted = @ + 1]
    /\ HoCall(App, "A_load", notificationWaker, Nil, "idle")
    /\ UNCHANGED <<ho_w, ho_sl>>

\* An active open when execute is about to set up its sleeper: the SYN has
\* been sent, the wakers are those of a new endpoint.
InitHandOff ==
    /\ WakeInit /\ TcpInit /\ DrvInit
    /\ job = "none"
    /\ p_opts = <<>> /\ p_i = 0 /\ p_mss = 0 /\ p_ws = 0 /\ p_ret = "ok"
    /\ p_reads = {}
    /\ f_wnd = <<0, 0>> /\ f_s = 0 /\ f_ret = "done"
    /\ c_h = <<>> /\ c_seg = <<>> /\ c_res = <<>>
    /\ ho_w = [w \in HoWakers |-> [s |-> Nil, next |-> Nil, id |-> 0]]
    /\ ho_sl = [s \in HoSleepers |-> [sharedList |-> Nil, localList |-> Nil, waitingG |-> 0]]
    /\ ho_pc = [t \in HoThreads |-> IF t = Driver THEN "x_add_ntf" ELSE "idle"]
    /\ ho_loc = [t \in HoThreads |-> NoCall(0)]
    /\ ho_ep = [h |-> newHandshake(U32(65535), <<0, 7>>).h,
                segmentQueue |-> <<>>,
                notifyFlags |-> {},
                taken |-> <<>>,
                residual |-> FALSE,
                sent |-> 0,
                noted |-> 0]

\* What a step of the hand-off leaves alone.
HoRest == <<wakeVars, tcpVars, drvVars, job, p_opts, p_i, p_mss, p_ws, p_ret, p_reads,
            f_wnd, f_s, f_ret, c_h, c_seg, c_res>>

NextHandOff ==
    \/ \E t \in HoThreads : HoAssertLoad(t) /\ UNCHANGED HoRest
    \/ \E t \in HoThreads : HoAssertSwap(t) /\ UNCHANGED HoRest
    \/ \E t \in HoThreads : HoEnqueueLoad(t) /\ UNCHANGED HoRest
    \/ \E t \in HoThreads : HoEnqueueStore(t) /\ UNCHANGED HoRest
    \/ \E t \in HoThreads : HoEnqueueCAS(t) /\ UNCHANGED HoRest
    \/ \E t \in HoThreads : HoWakeLoad(t) /\ UNCHANGED HoRest
    \/ \E t \in HoThreads : HoWakeCAS(t) /\ UNCHANGED HoRest
    \/ \E t \in HoThreads : HoGoReady(t) /\ UNCHANGED HoRest
    \/ HoAddWakerLoad /\ UNCHANGED HoRest
    \/ HoAddWakerCAS /\ UNCHANGED HoRest
    \/ HoFetchTest /\ UNCHANGED HoRest
    \/ HoFetchLoad /\ UNCHANGED HoRest
    \/ HoFetchPrepare /\ UNCHANGED HoRest
    \/ HoFetchRecheck /\ UNCHANGED HoRest
    \/ HoFetchAbort /\ UNCHANGED HoRest
    \/ HoFetchPark /\ UNCHANGED HoRest
    \/ HoFetchSwap /\ UNCHANGED HoRest
    \/ HoFetchReverse /\ UNCHANGED HoRest
    \/ HoFetchLink /\ UNCHANGED HoRest
    \/ HoFetchPop /\ UNCHANGED HoRest
    \/ HoFetchBind /\ UNCHANGED HoRest
    \/ HoExecuteAddWakers /\ UNCHANGED HoRest
    \/ HoExecuteLoop /\ UNCHANGED HoRest
    \/ HoExecuteSwitch /\ UNCHANGED HoRest
    \/ HoProcessSegment /\ UNCHANGED HoRest
    \/ HoProcessCheck /\ UNCHANGED HoRest
    \/ HoExecuteDone /\ UNCHANGED HoRest
    \/ HoMainAddWakers /\ UNCHANGED HoRest
    \/ HoMainLoop /\ UNCHANGED HoRest
    \/ HoMainSwitch /\ UNCHANGED HoRest
    \/ HoHandleSegment /\ UNCHANGED HoRest
    \/ HoDeliver /\ UNCHANGED HoRest
    \/ HoNotify /\ UNCHANGED HoRest

\* The hand-off of an active open: the protocol goroutine from the set-up
\* of the sleeper of execute into the main loop, the goroutine that
\* delivers the segments of the peer and a goroutine that notifies.
SpecHandOff == InitHandOff /\ [][NextHandOff]_vars

(***************************************************************************)
(* Properties of Part I                                                    *)
(***************************************************************************)

\* Waker w is linked in the sleeper's shared list or local list.
Linked(w) == \E i \in 1..Len(SharedSeq \o LocalSeq) : (SharedSeq \o LocalSeq)[i] = w

\* C1 as stated: with the consumer looping on Fetch(true), every waker that
\* is asserted is eventually consumed (Fetch returns its id, which makes it
\* bound again) or cleared, whatever the interleaving of the atomic steps.
AssertDelivered ==
    \A w \in Wakers : (w_s[w] = assertedSleeper) ~> (w_s[w] # assertedSleeper)

\* C1, amended: no lost wake-up once the push has succeeded.  With the
\* consumer looping on Fetch(true), a waker that is asserted and linked in
\* the sleeper's lists does not stay asserted for ever; the only step that
\* turns an asserted waker back into a bound one is the return of Fetch with
\* that waker's id (the other way out is a successful Clear, which makes it
\* nil); and the consumer does not stay parked for ever while a waker is
\* linked in the shared list.
NoLostWakeup ==
    /\ \A w \in Wakers :
          (w_s[w] = assertedSleeper /\ Linked(w)) ~> (w_s[w] # assertedSleeper)
    /\ [][\A w \in Wakers :
            (w_s[w] = assertedSleeper /\ w_s'[w] = TheSleeper)
                => /\ pc[Consumer] = "F_pop"
                   /\ pc'[Consumer] = "idle"
                   /\ lastRet' = [op |-> "Fetch", val |-> w_id[w]]]_vars
    /\ (pc[Consumer] = "parked" /\ sharedList # Nil) ~> (pc[Consumer] # "parked")

\* C1, witness: the consumer has committed its park and a producer has
\* pushed an asserted waker onto the shared list but not yet claimed the wake.
ParkedWithAssertedLinked ==
    /\ pc[Consumer] = "parked"
    /\ sharedList \in Wakers
    /\ w_s[sharedList] = assertedSleeper
    /\ \E t \in Producers : pc[t] = "W_load" /\ tw[t] = sharedList

\* The number of places at which waker w occurs in the sequence q.
Count(q, w) == Cardinality({i \in 1..Len(q) : q[i] = w})

\* Threads that are about to push w: between the entry of
\* enqueueAssertedWaker and its successful compare-and-swap.
Pushing(w) == {t \in Threads : pc[t] \in {"E_load", "E_cas"} /\ tw[t] = w}

\* AddWaker(w, id) has been called and is still between its load and its
\* compare-and-swap of w.s.
InAddWaker(w) == pc[Consumer] \in {"AW_load", "AW_cas"} /\ tw[Consumer] = w

\* AddWaker(w, id) is past the point where it bound or enqueued w.
Registered(w) == w_id[w] # 0 /\ ~InAddWaker(w)

\* The step is the return of Fetch with the id of waker w.
FetchReturns(w) ==
    /\ pc[Consumer] = "F_pop"
    /\ pc'[Consumer] = "idle"
    /\ localList = w
    /\ lastRet' = [op |-> "Fetch", val |-> w_id[w]]

RECURSIVE Rev(_)
Rev(q) == IF q = <<>> THEN <<>> ELSE Append(Rev(Tail(q)), Head(q))

\* C3: arrival order.  The wakers still linked are, local list first and
\* then the shared list from its oldest entry, exactly in the order in which
\* their pushes succeeded; Fetch pops the head of the local list, so ids are
\* returned in arrival order and an earlier drain is used up before a later.
ArrivalOrder == ~SleeperDone => LocalSeq \o Rev(SharedSeq) = arrival

\* C3, witness: two asserted wakers pushed between two drains are in the
\* local list, about to be popped.
TwoDrainedTogether ==
    /\ pc[Consumer] = "F_pop"
    /\ Len(LocalSeq) >= 2
    /\ \A i \in 1..Len(LocalSeq) : w_s[LocalSeq[i]] = assertedSleeper

\* C4: Clear.  A Clear call returns true exactly in a step that takes its
\* waker from asserted to nil, and false in a step that changes no waker;
\* no other step makes an asserted waker nil; Fetch returns an id only for
\* a popped waker that is still asserted (a cleared one is skipped); and
\* while the sleeper is not Done a registered waker that is nil is still
\* linked or about to be pushed, so a later Assert on it reaches Fetch.
ClearContract ==
    /\ [][\A t \in Producers :
            /\ (pc[t] = "C_cas" /\ pc'[t] = "idle" /\ lastRet'.val = TRUE)
                  => (w_s[tw[t]] = assertedSleeper /\ w_s'[tw[t]] = Nil)
            /\ (pc[t] = "C_cas" /\ pc'[t] = "idle" /\ lastRet'.val = FALSE)
                  => (w_s[tw[t]] # assertedSleeper /\ w_s' = w_s)
            /\ (pc[t] = "C_cas" /\ pc'[t] = "idle") => lastRet'.op = "Clear"]_vars
    /\ [][(pc' = pc /\ lastRet'.op = "Clear" /\ lastRet' # lastRet)
            => (lastRet'.val = FALSE /\ w_s' = w_s)]_vars
    /\ [][\A w \in Wakers :
            (w_s[w] = assertedSleeper /\ w_s'[w] = Nil)
                => \E t \in Producers :
                      /\ pc[t] = "C_cas" /\ tw[t] = w /\ pc'[t] = "idle"
                      /\ lastRet' = [op |-> "Clear", val |-> TRUE]]_vars
    /\ [][(pc[Consumer] = "F_pop" /\ pc'[Consumer] = "idle")
            => w_s[localList] = assertedSleeper]_vars
    /\ [](~SleeperDone =>
            \A w \in Wakers :
                (Registered(w) /\ w_s[w] = Nil) => (Linked(w) \/ Pushing(w) # {}))

\* C4, witness: a waker was cleared, with result true, after it was pushed
\* and before Fetch popped it.
ClearedWhileLinked ==
    /\ lastRet = [op |-> "Clear", val |-> TRUE]
    /\ \E w \in Wakers : w_s[w] = Nil /\ Linked(w) /\ Registered(w)

\* C5: AddWaker neither loses nor duplicates an assertion.  While the
\* sleeper is not Done, a registered waker that is bound is nowhere in the
\* lists, and one that is not (asserted, or cleared since) is linked or
\* being pushed exactly once; a waker not yet registered is not linked; and
\* an asserted waker becomes bound only by the Fetch that returns its id,
\* never by AddWaker.
AddWakerOnce ==
    /\ [](~SleeperDone =>
            \A w \in Wakers :
                LET occ == Count(SharedSeq \o LocalSeq, w) + Cardinality(Pushing(w))
                IN /\ (Registered(w) /\ w_s[w] = TheSleeper) => occ = 0
                   /\ (Registered(w) /\ w_s[w] # TheSleeper) => occ = 1
                   /\ w_id[w] = 0 => occ = 0)
    /\ [][\A w \in Wakers :
            (w_s[w] = assertedSleeper /\ w_s'[w] = TheSleeper) => FetchReturns(w)]_vars

\* C5, witness: an Assert has run between AddWaker's load of w.s and its
\* compare-and-swap, which is therefore about to fail.
AssertRacesAddWaker ==
    /\ pc[Consumer] = "AW_cas"
    /\ tv[Consumer] = Nil
    /\ w_s[tw[Consumer]] = assertedSleeper

\* C6: after Done.  The shared list keeps the sentinel once Done has stored
\* it and no waker is linked; a call that began after Done never gets to the
\* push or to the load of waitingG; and the swap of an Assert that began
\* after Done still leaves its waker asserted.
AfterDone ==
    /\ [][SleeperDone => SleeperDone']_vars
    /\ [](SleeperDone => \A w \in Wakers : ~Linked(w))
    /\ [](\A t \in Threads :
            lateCall[t] => pc[t] \notin {"E_cas", "W_load", "W_cas", "W_ready"})
    /\ [][\A t \in Producers :
            (lateCall[t] /\ pc[t] = "A_swap" /\ pc'[t] # "A_swap")
                => w_s'[tw[t]] = assertedSleeper]_vars

\* C6, witness: an Assert that began after Done, on a waker bound to the
\* sleeper, has made the waker asserted and entered enqueueAssertedWaker.
LateAssertEnqueues ==
    \E t \in Producers :
        /\ lateCall[t]
        /\ pc[t] = "E_load"
        /\ w_s[tw[t]] = assertedSleeper
        /\ SleeperDone

\* Thread t is inside a call other than Fetch(true).
InCall(t) == pc[t] # "idle" /\ (t = Consumer => ~block)

RECURSIVE WellFormedFrom(_, _)
WellFormedFrom(opts, i) ==
    IF i >= Len(opts) THEN TRUE
    ELSE IF opts[i + 1] = 0 THEN TRUE
    ELSE IF opts[i + 1] = 1 THEN WellFormedFrom(opts, i + 1)
    ELSE /\ i + 2 <= Len(opts)
         /\ opts[i + 2] >= 2
         /\ i + opts[i + 2] <= Len(opts)
         /\ opts[i + 1] = 2 => (opts[i + 2] = 4 /\ opts[i + 3] * 256 + opts[i + 4] # 0)
         /\ opts[i + 1] = 3 => opts[i + 2] = 3
         /\ WellFormedFrom(opts, i + opts[i + 2])

\* The region opts holds a window-scale option.
RECURSIVE HasWindowScale(_, _)
HasWindowScale(opts, i) ==
    IF i >= Len(opts) \/ opts[i + 1] = 0 THEN FALSE
    ELSE IF opts[i + 1] = 1 THEN HasWindowScale(opts, i + 1)
    ELSE opts[i + 1] = 3 \/ HasWindowScale(opts, i + opts[i + 2])

\* The step is a call of processSegments that handles the one segment s of
\* the segment queue.
Processes(s) ==
    /\ dpc = "handshake"
    /\ ready # <<>> /\ Head(ready) = wakerForNewSegment
    /\ segmentQueue = <<s>>
    /\ segmentQueue' = <<>>

\* The active handshake is in SYN-SENT and s carries SYN and ACK with
\* ack = iss + 1 and well-formed options.
CleanSynAck(s) ==
    /\ h.active /\ h.state = handshakeSynSent
    /\ flagSyn \in s.flags /\ flagAck \in s.flags /\ flagRst \notin s.flags
    /\ s.ackNumber = Add32(h.iss, U32(1))
    /\ WellFormedFrom(s.options, 0)

\* C8 as stated: clean active open.  A SYN-SENT handshake that processes a
\* segment with SYN and ACK, ack = iss + 1 and well-formed options becomes
\* Completed with ackNum = s.seq + 1 and emits just one bare ACK with
\* seq = iss + 1, ack = s.seq + 1 and window = rcvWnd >> effective receive
\* scale (0 if the segment has no window-scale option); the next step of
\* the driver publishes the state connected and notifies EventOut.
ActiveOpenCompletes ==
    /\ [][\A s \in Segs(h) :
            (Processes(s) /\ CleanSynAck(s)) =>
                /\ h'.state = handshakeCompleted
                /\ h'.ackNum = Add32(s.sequenceNumber, U32(1))
                /\ Len(out') = 1
                /\ out'[1].flags = {flagAck}
                /\ out'[1].options = <<>>
                /\ out'[1].seq = Add32(h.iss, U32(1))
                /\ out'[1].ack = Add32(s.sequenceNumber, U32(1))
                /\ U32(out'[1].window) =
                      Shr32(h.rcvWnd, IF HasWindowScale(s.options, 0)
                                      THEN h.rcvWndScale ELSE 0)
                /\ dpc' = "completed"]_vars
    /\ [][(dpc = "completed" /\ dpc' # "completed") =>
            /\ e_state' = stateConnected
            /\ notified' = Append(notified, {EventOut})]_vars

\* The list of SYN emissions of a handshake that nothing has disturbed is
\* an initial part of: one SYN at each of 0, 1, 3, 7, 15 and 31 s, with the
\* same sequence number.
BackoffLog ==
    /\ Len(synLog) <= 6
    /\ \A i \in 1..Len(synLog) :
          /\ synLog[i].t = Pow2(i - 1) - 1
          /\ synLog[i].seq = synLog[1].seq
          /\ synLog[i].flags = {flagSyn}

\* C9: retransmit backoff.  While no segment and no notification has
\* arrived, the SYNs emitted are those of BackoffLog; the timer is armed for
\* 1, 2, 4, 8, 16 and 32 s at 0, 1, 3, 7, 15 and 31 s; every expiry but the
\* sixth is answered by a SYN with the iss of the first; and the sixth, at
\* 63 s, makes execute fail with ErrTimeout after six SYNs and without an
\* emission.
Backoff ==
    /\ []((quiet /\ dpc \in {"handshake", "failed", "exited"} /\ hsErr # ErrRandRead) =>
            /\ BackoffLog
            /\ synLog # <<>> /\ synLog[1].seq = h.iss
            /\ hsErr \in {NoError, ErrTimeout}
            /\ armed => /\ timeOut = Pow2(Len(synLog) - 1)
                        /\ now = timeOut - 1
                        /\ deadline = now + timeOut
            /\ (dpc = "handshake" /\ ~armed) =>
                  /\ ready = <<wakerForResend>>
                  /\ now = 2 * timeOut - 1
                  /\ timeOut = Pow2(Len(synLog) - 1)
            /\ hsErr = ErrTimeout => (now = 63 /\ Len(synLog) = 6))
    /\ [][(quiet' /\ dpc = "handshake" /\ ~armed /\ ready' # ready) =>
            IF now < 63
            THEN /\ dpc' = "handshake"
                 /\ Len(out') = 1 /\ out'[1].flags = {flagSyn} /\ out'[1].seq = h.iss
                 /\ synLog' = Append(synLog, [t |-> now, seq |-> h.iss, flags |-> {flagSyn}])
            ELSE /\ dpc' = "failed" /\ hsErr' = ErrTimeout
                 /\ out' = <<>> /\ synLog' = synLog]_vars

\* C9, witness: nothing arrived and the handshake has failed with
\* ErrTimeout.
TimedOutQuietly ==
    /\ quiet /\ dpc = "failed" /\ hsErr = ErrTimeout
    /\ now = 63 /\ Len(synLog) = 6

\* v lies in [first, first + size) modulo 2^32, by cases: the interval
\* either does not wrap around or does.
InInterval(v, first, size) ==
    LET end == Add32(first, size) IN
    IF Less32(first, end)
    THEN ~Less32(v, first) /\ Less32(v, end)
    ELSE size # U32(0) /\ (~Less32(v, first) \/ Less32(v, end))

\* The RST segment s is acceptable to the handshake.
AcceptableRst(s) ==
    \/ /\ h.state = handshakeSynSent
       /\ flagAck \in s.flags
       /\ s.ackNumber = Add32(h.iss, U32(1))
    \/ /\ h.state = handshakeSynRcvd
       /\ InInterval(s.sequenceNumber, h.ackNum, h.rcvWnd)

\* C10: RST acceptance.  Processing an RST fails the handshake with
\* ErrConnectionRefused exactly if, in SYN-SENT, it carries ACK with
\* ack = iss + 1 or, in SYN-RCVD, its sequence number is in
\* [ackNum, ackNum + rcvWnd) modulo 2^32; any other RST is ignored: nothing
\* is emitted, execute goes on, and state, iss, ackNum and flags stay.
RstAcceptance ==
    [][\A s \in Segs(h) :
         (Processes(s) /\ flagRst \in s.flags) =>
            IF AcceptableRst(s)
            THEN hsErr' = ErrConnectionRefused /\ dpc' = "failed"
            ELSE /\ hsErr' = hsErr /\ dpc' = dpc
                 /\ out' = <<>>
                 /\ h'.state = h.state /\ h'.iss = h.iss
                 /\ h'.ackNum = h.ackNum /\ h'.flags = h.flags]_vars

\* C10, witness: an RST in the receive window, which wraps around, has made
\* a handshake in SYN-RCVD fail.
RefusedInSynRcvd ==
    /\ dpc = "failed" /\ hsErr = ErrConnectionRefused
    /\ h.state = handshakeSynRcvd
    /\ Less32(Add32(h.ackNum, h.rcvWnd), h.ackNum)

\* C11: failure propagation.  Whenever newHandshake or execute has failed,
\* with ErrConnectionRefused, ErrTimeout, ErrAborted or the error of
\* rand.Read, the driver has published neither the state connected nor a
\* sender or a receiver; its next step stores that error in lastError and in
\* hardError, publishes the state error, notifies the waiters of EventIn and
\* EventOut and returns, and nothing of this changes afterwards.
FailurePropagation ==
    /\ [](dpc = "failed" =>
            /\ hsErr \in HandshakeErrors
            /\ e_state = stateConnecting
            /\ snd = <<>> /\ rcv = <<>> /\ notified = <<>>)
    /\ [][dpc = "failed" =>
            /\ dpc' = "exited"
            /\ lastError' = hsErr /\ hardError' = hsErr
            /\ e_state' = stateError
            /\ snd' = <<>> /\ rcv' = <<>>
            /\ notified' = <<{EventIn, EventOut}>>]_vars
    /\ []((dpc = "exited" /\ hsErr # NoError) =>
            /\ lastError = hsErr /\ hardError = hsErr
            /\ e_state = stateError
            /\ snd = <<>> /\ rcv = <<>>
            /\ notified = <<{EventIn, EventOut}>>)
    /\ [](hsErr # NoError => dpc \in {"failed", "exited"})

\* C11, witness: a Close notification fetched during the handshake has made
\* the driver return with ErrAborted.
AbortedDriverExited ==
    /\ dpc = "exited" /\ hardError = ErrAborted /\ lastError = ErrAborted
    /\ e_state = stateError

\* The active handshake is in SYN-SENT and s carries SYN without ACK and
\* well-formed options.
BareSyn(s) ==
    /\ h.active /\ h.state = handshakeSynSent
    /\ s.flags = {flagSyn}
    /\ WellFormedFrom(s.options, 0)

\* C12 as stated: simultaneous open.  A SYN-SENT handshake that processes a
\* segment with SYN, without ACK and with well-formed options moves to
\* SYN-RCVD with ackNum = s.seq + 1 and emits one SYN|ACK with seq = iss,
\* which has not changed, and ack = ackNum; in SYN-RCVD, processing a
\* segment without RST that carries ACK with ack = iss + 1 completes the
\* handshake.
SimultaneousOpen ==
    /\ [][\A s \in Segs(h) :
            (Processes(s) /\ BareSyn(s)) =>
                /\ h'.state = handshakeSynRcvd
                /\ h'.ackNum = Add32(s.sequenceNumber, U32(1))
                /\ h'.iss = h.iss
                /\ Len(out') = 1
                /\ out'[1].flags = {flagSyn, flagAck}
                /\ out'[1].seq = h.iss
                /\ out'[1].ack = h'.ackNum]_vars
    /\ [][\A s \in Segs(h) :
            (/\ Processes(s)
             /\ h.active /\ h.state = handshakeSynRcvd
             /\ flagRst \notin s.flags /\ flagAck \in s.flags
             /\ s.ackNumber = Add32(h.iss, U32(1))) =>
                /\ h'.state = handshakeCompleted
                /\ dpc' = "completed"]_vars

\* The step is an iteration of the loop of handleSegments, for the segment
\* at the head of the queue.
TakesSegment ==
    /\ dpc = "segments"
    /\ segmentQueue # <<>>
    /\ segmentQueue' = Tail(segmentQueue)

\* C13: RST in the established state.  When handleSegments takes a segment
\* with RST from the queue and the receiver accepts its sequence number, the
\* state becomes error with hardError ErrConnectionReset and the driver
\* returns at once: the segments behind it stay in the queue and are never
\* processed.  An RST that is not acceptable changes neither the state nor
\* the sender nor the receiver, is passed to neither handleRcvdSegment, and
\* the loop goes on.
EstablishedRst ==
    /\ [][(TakesSegment /\ flagRst \in Head(segmentQueue).flags) =>
            IF acceptable(rcv[1], Head(segmentQueue).sequenceNumber)
            THEN /\ e_state' = stateError
                 /\ hardError' = ErrConnectionReset
                 /\ dpc' = "exited"
                 /\ handled' = handled /\ snd' = snd /\ rcv' = rcv
            ELSE /\ e_state' = e_state /\ hardError' = hardError
                 /\ dpc' = "segments" /\ batch' = batch + 1
                 /\ handled' = handled /\ snd' = snd /\ rcv' = rcv]_vars
    /\ [][dpc = "exited" =>
            UNCHANGED <<segmentQueue, handled, snd, rcv, e_state, hardError>>]_vars
    /\ [](\A k \in 1..Len(handled) : flagRst \notin handled[k].flags)

\* C13, witness: an acceptable RST has ended the driver and the segment
\* behind it is still in the queue.
ResetLeavesSegmentQueued ==
    /\ dpc = "exited" /\ e_state = stateError /\ hardError = ErrConnectionReset
    /\ segmentQueue # <<>>

\* C14: the abort path.  closeWaker is asserted, and so its handler runs,
\* only after the main loop has fetched a Close notification and the timer
\* armed for 3 s then has expired; the timer is armed at most once, however
\* many Close notifications are fetched; the handler emits one RST with
\* seq = sndUna and ack = rcvNxt, sets the state error with hardError
\* ErrConnectionAborted, and protocolMainLoop returns.
AbortPath ==
    /\ [](armCount <= 1)
    /\ [](armCount = 1 => closeSeen >= 1 /\ closeDeadline = 3)
    /\ []((InMainLoop /\ InSeq(ready, idxCloseWaker)) =>
            /\ closeTimer = "fired" /\ armCount = 1 /\ closeSeen >= 1
            /\ now = closeDeadline)
    /\ [][(Fetched(idxCloseWaker) /\ ready' = Tail(ready)) =>
            /\ closeTimer = "fired" /\ closeSeen >= 1 /\ now = 3
            /\ Len(out') = 1
            /\ flagRst \in out'[1].flags
            /\ out'[1].seq = snd[1].sndUna
            /\ out'[1].ack = rcv[1].rcvNxt
            /\ e_state' = stateError
            /\ hardError' = ErrConnectionAborted
            /\ dpc' = "exited"]_vars

\* C14, witness: two Close notifications were fetched, the timer was armed
\* once, and the handler of closeWaker has ended the driver.
AbortedAfterTwoCloses ==
    /\ dpc = "exited" /\ hardError = ErrConnectionAborted
    /\ closeSeen = 2 /\ armCount = 1

\* C15: the final state.  The state closed is published only from the
\* state connected, by the step at which the test of the main loop finds
\* receiver.closed, sender.closed and sndUna = sndNxtList; the state error
\* is never replaced; and when protocolMainLoop has returned, the state is
\* closed or error.
FinalState ==
    /\ [][(e_state' = stateClosed /\ e_state # stateClosed) =>
            /\ e_state = stateConnected
            /\ dpc = "loop"
            /\ rcv[1].closed /\ snd[1].closed
            /\ snd[1].sndUna = snd[1].sndNxtList]_vars
    /\ [][e_state = stateError => e_state' = stateError]_vars
    /\ [](dpc = "exited" => e_state \in {stateClosed, stateError})
    /\ [](e_state = stateClosed => dpc = "exited")

\* C15, witness: both sides are closed, everything sent is acknowledged,
\* and the driver has returned with the state closed.
ClosedInOrder ==
    /\ dpc = "exited" /\ e_state = stateClosed
    /\ rcv[1].closed /\ snd[1].closed /\ snd[1].sndUna = snd[1].sndNxtList

(* Properties of the functions of connect.go *)

\* The parser has been applied to p_opts and has returned.
Parsed == job = "parse" /\ p_ret \in {"ok", "bad"}

\* What the parser may do on any string: read inside the string only, and
\* return ok = false or values in range.
ParserSafe ==
    job = "parse" =>
        /\ p_ret # "panic"
        /\ \A x \in p_reads : x < Len(p_opts)
        /\ p_ret = "ok" => p_mss \in 1..65535 /\ p_ws \in {-1} \cup 0..14

\* C16: on every byte string given as the options of a SYN, parseSynOptions
\* terminates, reads no index at or beyond the end of the string, and
\* returns ok = false, or ok = true with mss in 1..65535 and ws in
\* {-1} \cup 0..14.
OptionParserRobustness == []ParserSafe /\ <>(job = "parse" => Parsed)

\* wnd <= 0xffff << k, the shift taken on unbounded numbers.
Covers(k, wnd) == k > 16 \/ ~Less32(Limit(k), wnd)

\* The smallest k >= 0 with (0xffff << k) >= wnd.
SmallestShift(wnd) ==
    CHOOSE k \in 0..17 : Covers(k, wnd) /\ \A j \in 0..(k - 1) : ~Covers(j, wnd)

Min(a, b) == IF a < b THEN a ELSE b

\* C17: for every 32-bit rcvWnd, findWndScale(rcvWnd) is min(k, 14) for the
\* smallest k >= 0 with (0xffff << k) >= rcvWnd, so the scale is in 0..14;
\* 0xffff gives 0, 0x10000 gives 1 and 0x7fffffff gives 14.
WindowScaleDerivation ==
    (job = "scale" /\ f_ret = "done") =>
        /\ f_s = Min(SmallestShift(f_wnd), 14)
        /\ f_s \in 0..14
        /\ f_wnd = <<0, 65535>> => f_s = 0
        /\ f_wnd = <<1, 0>> => f_s = 1
        /\ f_wnd = <<32767, 65535>> => f_s = 14

\* C17, witness: findWndScale has returned 2 for 0x1fffe + 1, the first
\* window that 0xffff << 1 does not cover.
ScaleJustAboveLimit ==
    /\ job = "scale" /\ f_ret = "done"
    /\ f_wnd = <<1, 65535>>
    /\ f_s = 2

\* C18: for every mss in 1..65535 and ws in 0..14, the option bytes that
\* sendSynTCP builds for (mss, ws) are parsed by parseSynOptions to exactly
\* (mss, ws, ok = true): the parse of such a string goes on until it
\* returns, and it returns these values.
OptionRoundTrip ==
    \A mtu \in MtuValues, w \in 0..maxWndScale :
        (job = "parse" /\ p_opts = synOptions(mtu, w)) =>
            /\ p_ret \in {"call", "run", "ok"}
            /\ p_ret = "run" =>
                   parseSynOptionsBody(p_opts, p_i, p_mss, p_ws).i > p_i
            /\ p_ret = "ok" =>
                   /\ p_mss = mtu - TCPMinimumSize
                   /\ p_ws = w

\* C18, witness: the options built for mss = 65535 and ws = 14 have been
\* parsed back to these values.
RoundTripOfLargest ==
    /\ Parsed /\ p_ret = "ok"
    /\ p_opts = synOptions(65535 + TCPMinimumSize, maxWndScale)
    /\ p_opts = <<2, 4, 255, 255, 3, 3, 14, 1>>
    /\ p_mss = 65535 /\ p_ws = maxWndScale

\* synRcvdState has been called on a segment that is no RST, passes the
\* check of its ACK and carries SYN with a sequence number other than
\* ackNum - 1.
SecondSynHandled ==
    /\ job = "synRcvd"
    /\ c_res # <<>>
    /\ c_h.state = handshakeSynRcvd
    /\ ~flagIsSet(c_seg, flagRst)
    /\ flagIsSet(c_seg, flagAck) => c_seg.ackNumber = Add32(c_h.iss, U32(1))
    /\ flagIsSet(c_seg, flagSyn)
    /\ c_seg.sequenceNumber # Sub32(c_h.ackNum, U32(1))

\* The RST|ACK that answers segment s.
RstFor(s) ==
    [flags |-> {flagRst, flagAck},
     seq |-> IF flagIsSet(s, flagAck) THEN s.ackNumber ELSE U32(0),
     ack |-> Add32(s.sequenceNumber, logicalLen(s)),
     window |-> 0,
     options |-> <<>>]

\* C19 as stated: such a segment causes one RST|ACK with seq = s.ack if ACK
\* is present, else 0, and ack = s.seq + logicalLen(s); a passive handshake
\* then fails with InvalidEndpointState; an active handshake draws a new
\* iss, resets its options to the initial values while keeping rcvWnd and
\* rcvWndScale, retransmits SYN|ACK and stays in SynRcvd.
IncompatibleSynAsStated ==
    SecondSynHandled =>
        LET r == c_res[1].res
            rnd == c_res[1].rnd
        IN /\ Len(r.out) >= 1 /\ r.out[1] = RstFor(c_seg)
           /\ \A k \in 2..Len(r.out) : flagRst \notin r.out[k].flags
           /\ ~c_h.active => r.err = ErrInvalidEndpointState
           /\ (c_h.active /\ rnd # <<>>) =>
                  /\ r.err = NoError
                  /\ r.h.iss = rnd
                  /\ r.h.mss = 0
                  /\ r.h.rcvWnd = c_h.rcvWnd
                  /\ r.h.rcvWndScale = c_h.rcvWndScale
                  /\ Len(r.out) = 2
                  /\ r.out[2].flags = {flagSyn, flagAck}
                  /\ r.h.state = handshakeSynRcvd

\* C19, amended: such a segment causes one RST|ACK with seq = s.ack if ACK
\* is present, else 0, and ack = s.seq + logicalLen(s); a passive handshake
\* then fails with InvalidEndpointState; an active handshake for which
\* rand.Read fails then fails with the error of rand.Read, nothing else
\* sent and nothing changed; any other active handshake draws a new iss,
\* goes back to SynSent with flags = SYN, ackNum = 0 and mss = 0, keeps
\* rcvWnd, rcvWndScale and sndWndScale, and sends a SYN without ACK that
\* carries the new iss.
IncompatibleSyn ==
    SecondSynHandled =>
        LET r == c_res[1].res
            rnd == c_res[1].rnd
        IN /\ Len(r.out) >= 1 /\ r.out[1] = RstFor(c_seg)
           /\ ~c_h.active =>
                  /\ r.err = ErrInvalidEndpointState
                  /\ r.h = c_h
                  /\ Len(r.out) = 1
           /\ (c_h.active /\ rnd = <<>>) =>
                  /\ r.err = ErrRandRead
                  /\ r.h = c_h
                  /\ Len(r.out) = 1
           /\ (c_h.active /\ rnd # <<>>) =>
                  /\ r.err = NoError
                  /\ r.h = [c_h EXCEPT !.state = handshakeSynSent,
                                       !.flags = {flagSyn},
                                       !.ackNum = U32(0),
                                       !.mss = 0,
                                       !.iss = rnd]
                  /\ Len(r.out) = 2
                  /\ r.out[2].flags = {flagSyn}
                  /\ r.out[2].seq = rnd
                  /\ r.out[2].ack = U32(0)

\* C19, witness: an active handshake in SynRcvd has met a SYN|ACK with
\* another sequence number and is back in SynSent with a new iss.
RestartedFromSynRcvd ==
    /\ SecondSynHandled
    /\ c_h.active
    /\ flagIsSet(c_seg, flagAck)
    /\ c_res[1].rnd # <<>> /\ c_res[1].rnd # c_h.iss
    /\ c_res[1].res.h.state = handshakeSynSent
    /\ c_res[1].res.h.iss = c_res[1].rnd
    /\ Len(c_res[1].res.out) = 2

\* C20: for an option of unrecognised kind at any offset i of the option
\* region, offset 0 included, with length byte l at i + 1, parseSynOptions
\* returns ok = false if the length byte is missing, l < 2, or i + l
\* exceeds the option region; otherwise it skips exactly l bytes and goes
\* on parsing, so that a well-formed unknown option never causes the SYN
\* to be dropped.
UnknownOptions ==
    [][(/\ job = "parse"
        /\ p_ret = "run"
        /\ Byte(p_opts, p_i) \notin {TCPOptionEOL, TCPOptionNOP, TCPOptionMSS,
                                     TCPOptionWS}) =>
           LET limit == Len(p_opts)
               l == Byte(p_opts, p_i + 1)
           IN IF p_i + 2 > limit \/ l < 2 \/ p_i + l > limit
              THEN p_ret' = "bad"
              ELSE /\ p_ret' \in {"run", "ok"}
                   /\ p_i' = p_i + l
                   /\ p_mss' = p_mss
                   /\ p_ws' = p_ws]_vars

\* C22: in SynSent or SynRcvd a segment without RST that carries ACK with
\* ack # iss + 1 is answered by exactly one RST|ACK with seq = s.ack and
\* ack = s.seq + logicalLen(s) modulo 2^32, and is otherwise dropped: the
\* handshake does not fail, and phase, iss, ackNum, flags, mss and the
\* window scale of the peer are unchanged.
HandshakeAckValidation ==
    (/\ job = "process"
     /\ c_res[1].n > 0
     /\ c_res[1].before.state \in {handshakeSynSent, handshakeSynRcvd}
     /\ ~flagIsSet(c_seg, flagRst)
     /\ flagIsSet(c_seg, flagAck)
     /\ c_seg.ackNumber # Add32(c_res[1].before.iss, U32(1))) =>
        LET b == c_res[1].before
            r == c_res[1].res
        IN /\ Len(r.out) = 1
           /\ r.out[1].flags = {flagRst, flagAck}
           /\ r.out[1].seq = c_seg.ackNumber
           /\ r.out[1].ack = Add32(c_seg.sequenceNumber, logicalLen(c_seg))
           /\ r.err = NoError
           /\ ~r.hang
           /\ c_h = r.h
           /\ c_h.state = b.state
           /\ c_h.iss = b.iss
           /\ c_h.ackNum = b.ackNum
           /\ c_h.flags = b.flags
           /\ c_h.mss = b.mss
           /\ c_h.sndWndScale = b.sndWndScale

\* A handshake in SynRcvd has answered an ACK of iss + 2 that carries one
\* byte of data, after a first segment that it accepted.
BadAckAnswered ==
    /\ job = "process"
    /\ c_res[1].n = 2
    /\ c_res[1].before.state = handshakeSynRcvd
    /\ c_seg.flags = {flagAck}
    /\ c_seg.dataLen = 1
    /\ c_seg.ackNumber = Add32(c_h.iss, U32(2))
    /\ c_res[1].res.out[1].ack = Add32(c_seg.sequenceNumber, U32(1))
    /\ c_h.state = handshakeSynRcvd

\* The window a segment advertises to a handshake whose peer scales its
\* windows by sndWndScale: the window field, which is scaled on every
\* segment but a SYN.
AdvertisedWindow(s, sndWndScale) ==
    IF ~flagIsSet(s, flagSyn) /\ sndWndScale > 0
    THEN Shl32(s.window, sndWndScale)
    ELSE s.window

\* C28: the handshake reaches Completed only by processing a segment
\* without RST that carries ACK with ack = iss + 1 for the current iss, and
\* at that moment ackNum is the sequence number of the accepted SYN of the
\* peer plus one; the sender and the receiver are created with irs equal to
\* that sequence number; a segment that was ignored or dropped changes
\* neither iss nor ackNum, and the sndWnd handed to the sender is the
\* window of the completing segment.
HandshakeSynchronisation ==
    (job = "process" /\ c_res[1].n > 0) =>
        LET st == c_res[1]
            b == st.before
        IN /\ c_h.state = handshakeCompleted =>
                 /\ ~flagIsSet(c_seg, flagRst)
                 /\ flagIsSet(c_seg, flagAck)
                 /\ c_seg.ackNumber = Add32(b.iss, U32(1))
                 /\ c_h.iss = b.iss
                 /\ st.syn # <<>>
                 /\ c_h.ackNum = Add32(st.syn[1], U32(1))
           /\ st.ends # <<>> =>
                 /\ st.ends[1].snd.irs = st.syn[1]
                 /\ st.ends[1].rcv.irs = st.syn[1]
                 /\ st.ends[1].snd.iss = c_h.iss
                 /\ st.ends[1].snd.sndWnd = AdvertisedWindow(c_seg, c_h.sndWndScale)
           /\ (st.res.err = NoError /\ c_h.state = b.state) =>
                 /\ c_h.iss = b.iss
                 /\ c_h.ackNum = b.ackNum

\* An active handshake accepted a SYN, ignored a segment that advertised
\* another window, completed on an ACK, and its state was transferred.
CompletedAfterIgnoredSegment ==
    /\ job = "process"
    /\ c_res[1].n = 3
    /\ c_h.active
    /\ c_h.state = handshakeCompleted
    /\ c_res[1].before.state = handshakeSynRcvd
    /\ c_res[1].before.sndWnd # c_h.sndWnd
    /\ c_h.sndWndScale > 0
    /\ c_seg.flags = {flagAck}
    /\ c_res[1].ends # <<>>
    /\ c_res[1].ends[1].snd.irs = c_res[1].syn[1]

(* Properties of the send side *)

\* C25: the first handling of sndCloseWaker moves every byte of the send
\* queue to the writeList of the sender, advancing sndNxtList by that
\* number, marks the sender closed and advances sndNxtList by one for the
\* FIN; no later wake of sndWaker or sndCloseWaker changes sndNxtList, so
\* the FIN is counted once and is the last sequence number queued.
SendSideClose ==
    [][(snd # <<>> /\ snd' # <<>>) =>
        /\ snd[1].closed =>
              /\ snd'[1].closed
              /\ snd'[1].sndNxtList = snd[1].sndNxtList
              /\ snd'[1].writeList = snd[1].writeList
        /\ (~snd[1].closed /\ snd'[1].closed) =>
              /\ Fetched(idxSndCloseWaker)
              /\ snd'[1].writeList = snd[1].writeList + sndBufInQueue
              /\ snd'[1].sndNxtList =
                     Add32(snd[1].sndNxtList, U32(sndBufInQueue + 1))
              /\ sndBufInQueue' = 0
        /\ snd'[1].closed =>
              snd'[1].sndNxtList = Add32(snd'[1].iss, U32(snd'[1].writeList + 2))]_vars

\* The sender was closed with a byte on its writeList, a byte was written
\* afterwards, and the wake of sndWaker for it has been handled.
WrittenAfterClose ==
    /\ dpc = "loop"
    /\ snd # <<>>
    /\ snd[1].closed
    /\ snd[1].writeList > 0
    /\ sndBufInQueue > 0
    /\ ~InSeq(ready, idxSndWaker)

(* Properties of the return of protocolMainLoop and of workMu *)

\* The position of step x in exitLog, 0 if it is not there.
Pos(x) ==
    IF \E i \in 1..Len(exitLog) : exitLog[i] = x
    THEN CHOOSE i \in 1..Len(exitLog) : exitLog[i] = x
    ELSE 0

\* Both steps are in exitLog, a before b.
Before(a, b) == Pos(a) # 0 /\ Pos(a) < Pos(b)

\* Step a, if it is in exitLog, comes before b, which is in exitLog.
BeforeIfAny(a, b) == Pos(b) # 0 /\ (Pos(a) # 0 => Pos(a) < Pos(b))

WorkMutexAsStated ==
    /\ dpc = "segments" => workMu = "driver"
    /\ (dpc = "fetch" /\ ready = <<>>) => workMu # "driver"
    /\ (dpc = "handshake" /\ ready = <<>>) => workMu # "driver"

\* C23, amended: the driver holds workMu from its start to its return
\* except while it is in the Fetch(true) of the main loop: it holds workMu
\* throughout the handshake, also while it is parked in the Fetch(true) of
\* execute, and during every handler invocation, it takes workMu before a
\* handler of the main loop runs, and while another task holds workMu the
\* driver changes nothing.
WorkMutex ==
    /\ [](dpc = "fetch" <=> workMu # "driver")
    /\ [][(dpc = "fetch" /\ dpc' # "fetch") => (workMu = "none" /\ workMu' = "driver")]_vars
    /\ [][workMu = "ext" =>
            (/\ dpc' = dpc /\ snd' = snd /\ rcv' = rcv /\ e_state' = e_state
             /\ hardError' = hardError /\ notified' = notified /\ batch' = batch
             /\ handled' = handled /\ closeTimer' \in {closeTimer, "fired"}
             /\ Len(segmentQueue') >= Len(segmentQueue)
             /\ notifyFlags \subseteq notifyFlags'
             /\ sndBufInQueue' >= sndBufInQueue)]_vars

\* The driver is parked in the Fetch of the main loop while another task
\* holds workMu, after a handler has run.
ParkedWhileExternalHolds ==
    /\ dpc = "fetch"
    /\ ready = <<>>
    /\ workMu = "ext"
    /\ snd[1].closed

(* Properties of the main loop under traffic *)

\* The place of x in q.
Index(q, x) == CHOOSE i \in 1..Len(q) : q[i] = x

\* Fetch returns and a handler is invoked.
Invocation == dpc = "fetch" /\ dpc' # "fetch"

\* Waker w, if it is asserted, is the one whose handler is invoked, or it
\* stays asserted and an invocation of another handler moves it one place
\* towards the front.
Advances(w) ==
    InSeq(ready, w) =>
        IF Invocation /\ Head(ready) = w
        THEN /\ ready' = Tail(ready)
             /\ w = idxCloseWaker => hardError' = ErrConnectionAborted
        ELSE /\ InSeq(ready', w)
             /\ Index(ready', w) = Index(ready, w) - (IF Invocation THEN 1 ELSE 0)

Unbound == Nil
BoundTo == TheSleeper
Asserted == assertedSleeper

\* The step is the store to w.s of the operation named: the compare-and-swap
\* of AddWaker, the swap of Assert, the swap of Fetch on the waker it
\* popped, the compare-and-swap of Clear.
ByAddWaker(w) == pc[Consumer] = "AW_cas" /\ tw[Consumer] = w /\ pc'[Consumer] # "AW_cas"
ByAssert(w) == \E t \in Threads : pc[t] = "A_swap" /\ tw[t] = w /\ pc'[t] # "A_swap"
ByFetch(w) == pc[Consumer] = "F_pop" /\ localList = w /\ localList' = w_next[w]
ByClear(w) == \E t \in Threads : pc[t] = "C_cas" /\ tw[t] = w /\ pc'[t] = "idle"

\* The state of waker w changes from a to b.
Changes(w, a, b) == w_s[w] = a /\ w_s'[w] = b

\* The four transitions of the specification.
StatedTransition(w) ==
    \/ Changes(w, Unbound, BoundTo) /\ ByAddWaker(w)
    \/ Changes(w, BoundTo, Asserted) /\ ByAssert(w)
    \/ Changes(w, Asserted, BoundTo) /\ ByFetch(w)
    \/ Changes(w, Asserted, Unbound) /\ ByClear(w)

\* C27 as stated: each change of a waker's state is one of the four
\* transitions Unbound to BoundTo by AddWaker, BoundTo to Asserted by
\* Assert, Asserted to BoundTo by Fetch, Asserted to Unbound by Clear.
FourTransitions ==
    [][\A w \in Wakers : w_s'[w] # w_s[w] => StatedTransition(w)]_vars

\* C27, amended: each change of a waker's state is one of six transitions:
\* the four above, Unbound to Asserted by Assert (a waker asserted before
\* it has a sleeper), and Unbound to BoundTo by Fetch (a waker that was
\* cleared while it was linked, when Fetch pops it).
WakerTransitions ==
    [][\A w \in Wakers : w_s'[w] # w_s[w] =>
            \/ StatedTransition(w)
            \/ Changes(w, Unbound, Asserted) /\ ByAssert(w)
            \/ Changes(w, Unbound, BoundTo) /\ ByFetch(w)]_vars

\* Fetch is about to pop a waker that was cleared while it was linked: its
\* swap takes the waker from Unbound to BoundTo.
ClearedWakerAboutToBind ==
    /\ pc[Consumer] = "F_pop"
    /\ localList # Nil
    /\ w_s[localList] = Unbound

(* Properties of the sleep package: who wakes the consumer *)

\* The threads that are about to call goready.
Waking == {t \in Threads : pc[t] = "W_ready"}

\* C29: waitingG holds the handle of the consumer only while the consumer
\* is parked; a thread goes on to goready(g) only by its own
\* compare-and-swap of waitingG from that handle to zero, with the consumer
\* parked; goready is never called on a consumer that is not parked, and
\* at most one thread at a time is about to wake the consumer, which stays
\* parked, with waitingG zero, until that thread has called goready.
WakeClaim ==
    /\ [](waitingG = ConsumerG => pc[Consumer] = "parked")
    /\ [](~readyErr)
    /\ [](Cardinality(Waking) <= 1)
    /\ [](\A t \in Waking : tv[t] = ConsumerG /\ pc[Consumer] = "parked" /\ waitingG = 0)
    /\ [][\A t \in Threads : (pc[t] # "W_ready" /\ pc'[t] = "W_ready") =>
            /\ pc[t] = "W_cas"
            /\ tv[t] = ConsumerG
            /\ waitingG = ConsumerG
            /\ waitingG' = 0
            /\ pc[Consumer] = "parked"]_vars
    /\ [][(pc[Consumer] = "parked" /\ pc'[Consumer] # "parked") =>
            \E t \in Waking : pc'[t] # "W_ready"]_vars

\* Two producers loaded the handle of the parked consumer; the
\* compare-and-swap of one of them succeeded and it is about to call
\* goready, while the other is still to compare and swap.
TwoProducersOneWakes ==
    \E t, u \in Producers :
        /\ pc[t] = "W_ready"
        /\ pc[u] = "W_cas"
        /\ tv[u] = ConsumerG
        /\ pc[Consumer] = "parked"

(* Properties of the hand-off *)

\* No goroutine is delivering a segment or notifying.
ProducersIdle == ho_pc[Net] = "idle" /\ ho_pc[App] = "idle"

\* The handshake dequeues no segment after the one that completes it.
NoDequeueAfterCompletion ==
    \A i \in 1..Len(ho_ep.taken) :
        ho_ep.taken[i].by = "handshake" => ho_ep.taken[i].state # handshakeCompleted

\* If segments remain in the queue after the completion, or arrive before
\* the main loop registers its wakers, newSegmentWaker is asserted as soon
\* as the swap of the Assert that follows the arrival is done.
ResidualAsserted ==
    (HandedOver /\ ho_ep.segmentQueue # <<>> /\ ho_pc[Net] \notin {"A_load", "A_swap"})
        => ho_w[newSegmentWaker].s = assertedSleeper

\* After a hand-off with residual segments, the protocol goroutine is not
\* parked in the Fetch of the main loop with segments queued when no
\* goroutine is about to wake it.
ResidualProcessed ==
    (ho_ep.residual /\ ho_pc[Driver] = "parked" /\ ProducersIdle)
        => ho_ep.segmentQueue = <<>>

\* C21: the handshake dequeues no segment after the one that completes it;
\* if segments remain in the queue at that point, or arrive before the
\* driver registers its wakers, newSegmentWaker is left asserted; the
\* Fetch of the driver returns it and handleSegments takes those segments,
\* so that the driver never stays parked with segments queued.
HandOff ==
    /\ NoDequeueAfterCompletion
    /\ ResidualAsserted
    /\ ResidualProcessed

====
